---- MODULE Spec2Model ----
(***************************************************************************)
(* A model of the mqtt-tiny packet codec: the iterator based Decoder, the  *)
(* Encoder, the Length meter, the fourteen packet types and the            *)
(* type-erased Packet.  A byte is a number in 0..255, a byte stream is a   *)
(* sequence of bytes, Option<T> is a sequence of length 0 (None) or 1      *)
(* (Some).                                                                 *)
(***************************************************************************)
EXTENDS Integers, Sequences, FiniteSets, TLC

VARIABLES phase, backend, pkt, enc, wire, tamper, res, via, lenIn, vec, call, features,
          sent, got, meter, lim

vars == <<phase, backend, pkt, enc, wire, tamper, res, via, lenIn, vec, call, features,
          sent, got, meter, lim>>

(***************************************************************************)
(* Bounds of the model                                                     *)
(***************************************************************************)
\* longest byte field (client id, topic, payload) a caller passes
MaxLen == 1
\* most topics a caller passes to SUBSCRIBE / UNSUBSCRIBE
MaxTopics == 1
\* capacity of the fixed-capacity byte container (ArrayVec<u8, CAP>)
BytesCap == 1
\* capacity of the fixed-capacity topic container (ArrayVec<_, CAP>)
SeqCap == 1
\* most bytes the peer appends inside the remaining-length region
MaxPad == 1
VecCap == 2
MaxExtend == 2
MaxSink == 3
MaxRaw == 5
\* longest source a limited decoder is made over
MaxView == 6

(***************************************************************************)
(* Program constants                                                       *)
(***************************************************************************)
ConnectTYPE == 1
ConnackTYPE == 2
PublishTYPE == 3
PubackTYPE == 4
PubrecTYPE == 5
PubrelTYPE == 6
PubcompTYPE == 7
SubscribeTYPE == 8
SubackTYPE == 9
UnsubscribeTYPE == 10
UnsubackTYPE == 11
PingreqTYPE == 12
PingrespTYPE == 13
DisconnectTYPE == 14

\* b"\x00\x04MQTT"
PROTOCOL_NAME == <<0, 4, 77, 81, 84, 84>>
PROTOCOL_LEVEL_MQTT_3_1_1 == 4
\* BODY_LEN of the ACK-like packets and of CONNACK
AckBODY_LEN == 2
\* BODY_LEN of DISCONNECT, PINGREQ, PINGRESP
EmptyBODY_LEN == 0
\* 0b1_0000000_0000000_0000000_0000000, the first length that has no encoding
PacketlenLimit == 268435456
\* u16::MAX
U16Max == 65535

AckTypes == {PubackTYPE, PubrecTYPE, PubrelTYPE, PubcompTYPE, SubackTYPE, UnsubackTYPE}
EmptyTypes == {DisconnectTYPE, PingreqTYPE, PingrespTYPE}

(***************************************************************************)
(* Helpers on bytes and sequences                                          *)
(***************************************************************************)
Min(a, b) == IF a < b THEN a ELSE b

RECURSIVE Pow2(_)
Pow2(k) == IF k = 0 THEN 1 ELSE 2 * Pow2(k - 1)

\* byte & (1 << k) != 0
Bit(byte, k) == (byte \div Pow2(k)) % 2 = 1

\* bool as u8
B2N(b) == IF b THEN 1 ELSE 0

Take(s, n) == SubSeq(s, 1, Min(n, Len(s)))
Drop(s, n) == SubSeq(s, Min(n, Len(s)) + 1, Len(s))

None == <<>>
Some(x) == <<x>>
IsSome(o) == Len(o) = 1

\* u16::to_be_bytes
U16Bytes(n) == <<n \div 256, n % 256>>

(***************************************************************************)
(* Results: Ok(value) / Err(kind), with the source left behind             *)
(***************************************************************************)
Ok(v, r) == [ok |-> TRUE, val |-> v, err |-> "", rest |-> r]
Err(e, r) == [ok |-> FALSE, val |-> <<>>, err |-> e, rest |-> r]

Truncated == "Truncated"
SpecViolation == "SpecViolation"
Memory == "Memory"
UnsupportedVersion == "UnsupportedVersion"

(***************************************************************************)
(* AnyVec: cap < 0 is the growable std Vec, cap >= 0 an ArrayVec of that    *)
(* capacity                                                                *)
(***************************************************************************)
Unbounded == -1

\* a vector that never reports to be full
FullNever(v, cap) == FALSE

\* Vec::try_reserve / ArrayVec::try_insert failing
Full(v, cap) == cap # Unbounded /\ Len(v) >= cap

\* AnyVec::insert without the clamping of the index: an index past the end
\* is refused
AnyVecInsertStrict(v, index, element, cap) ==
    IF Full(v, cap) \/ index > Len(v)
    THEN Err(Memory, <<>>)
    ELSE Ok(SubSeq(v, 1, index) \o <<element>> \o SubSeq(v, index + 1, Len(v)), <<>>)

\* AnyVec::insert
AnyVecInsert(v, index, element, cap) ==
    LET i == Min(index, Len(v))
    IN  IF Full(v, cap)
        THEN Err(Memory, <<>>)
        ELSE Ok(SubSeq(v, 1, i) \o <<element>> \o SubSeq(v, i + 1, Len(v)), <<>>)

\* AnyVec::push
AnyVecPush(v, element, cap) == AnyVecInsert(v, Len(v), element, cap)

\* AnyVec::new, by AnyVec::extend on the empty vector
AnyVecNew(elements, cap) ==
    IF cap # Unbounded /\ Len(elements) > cap
    THEN Err(Memory, <<>>)
    ELSE Ok(elements, <<>>)

\* the outcome of a method of AnyVec<T>: the result it returns and the
\* contents of the vector after the call
VecOk(v) == [ok |-> TRUE, err |-> "", vec |-> v]
VecErr(e, v) == [ok |-> FALSE, err |-> e, vec |-> v]
VecOutcome(r, v) == IF r.ok THEN VecOk(r.val) ELSE VecErr(r.err, v)

\* impl AnyVec<T> for std::vec::Vec<T>: insert; reserved is the outcome of
\* try_reserve(1)
StdInsert(v, index, element, reserved) ==
    IF ~reserved THEN VecErr(Memory, v)
    ELSE VecOutcome(AnyVecInsert(v, index, element, Unbounded), v)

\* impl AnyVec<T> for std::vec::Vec<T>: extend; reserved is the outcome of
\* try_reserve(elements.len())
StdExtend(v, elements, reserved) ==
    IF ~reserved THEN VecErr(Memory, v) ELSE VecOk(v \o elements)

\* impl AnyVec<T> for arrayvec::ArrayVec<T, CAP>: insert
ArrayVecInsert(v, index, element, cap) ==
    VecOutcome(AnyVecInsert(v, index, element, cap), v)

\* impl AnyVec<T> for arrayvec::ArrayVec<T, CAP>: extend, one try_push for
\* each element
RECURSIVE ArrayVecExtend(_, _, _)
ArrayVecExtend(v, elements, cap) ==
    IF elements = <<>> THEN VecOk(v)
    ELSE IF Len(v) >= cap THEN VecErr(Memory, v)
    ELSE ArrayVecExtend(Append(v, Head(elements)), Tail(elements), cap)

\* insert on a full heapless::Vec giving up its last element
HeaplessInsertEvicting(v, index, element, cap) ==
    IF Len(v) >= cap
    THEN VecErr(Memory, Take(v, Len(v) - 1))
    ELSE VecOutcome(AnyVecInsert(v, index, element, cap), v)

\* impl AnyVec<T> for heapless::Vec<T, CAP>: insert
HeaplessInsert(v, index, element, cap) ==
    VecOutcome(AnyVecInsert(v, index, element, cap), v)

\* impl AnyVec<T> for heapless::Vec<T, CAP>: extend, one push for each
\* element
RECURSIVE HeaplessExtend(_, _, _)
HeaplessExtend(v, elements, cap) ==
    IF elements = <<>> THEN VecOk(v)
    ELSE IF Len(v) >= cap THEN VecErr(Memory, v)
    ELSE HeaplessExtend(Append(v, Head(elements)), Tail(elements), cap)

\* AnyVec::insert on the backend b
Insert(b, v, index, element, cap, reserved) ==
    IF b = "std" THEN StdInsert(v, index, element, reserved)
    ELSE IF b = "arrayvec" THEN ArrayVecInsert(v, index, element, cap)
    ELSE HeaplessInsert(v, index, element, cap)

\* AnyVec::push on the backend b: the provided method of the trait
Push(b, v, element, cap, reserved) ==
    Insert(b, v, Len(v), element, cap, reserved)

\* AnyVec::extend on the backend b
Extend(b, v, elements, cap, reserved) ==
    IF b = "std" THEN StdExtend(v, elements, reserved)
    ELSE IF b = "arrayvec" THEN ArrayVecExtend(v, elements, cap)
    ELSE HeaplessExtend(v, elements, cap)

(***************************************************************************)
(* Decoder: every read takes the source and returns the value read and the *)
(* source left behind                                                      *)
(***************************************************************************)
\* Decoder::limit that does not limit
DecoderLimitNone(source, limit) == source

\* Decoder::limit yielding one byte more
DecoderLimitOneMore(source, limit) == Take(source, limit + 1)

\* Decoder::limit: the Take adapter yields at most limit bytes of the source
DecoderLimit(source, limit) == Take(source, limit)

\* what the source under a Take adapter is left with, when the limited view
\* created by limit(limit) still holds the bytes left
Underlying(source, limit, left) == left \o Drop(source, limit)

\* Decoder::u8
DecoderU8(source) ==
    IF source = <<>> THEN Err(Truncated, source) ELSE Ok(Head(source), Tail(source))

\* Decoder::raw::<SIZE>: the array is filled byte by byte with u8()?, so a
\* source shorter than size is used up and the read fails
DecoderRaw(source, size) ==
    IF Len(source) < size
    THEN Err(Truncated, <<>>)
    ELSE Ok(Take(source, size), Drop(source, size))

\* u16::from_be_bytes with the two bytes swapped
U16FromLeBytes(bytes) ==
    IF ~bytes.ok THEN bytes ELSE Ok(bytes.val[2] * 256 + bytes.val[1], bytes.rest)

\* u16::from_be_bytes on the bytes Decoder::u16 has read
U16FromBeBytes(bytes) ==
    IF ~bytes.ok THEN bytes ELSE Ok(bytes.val[1] * 256 + bytes.val[2], bytes.rest)

\* Decoder::u16
DecoderU16(source) == U16FromBeBytes(DecoderRaw(source, 2))

RECURSIVE DecoderBytesLoop(_, _, _, _)
\* the body of the loop of Decoder::bytes, once u8() has returned byte
DecoderBytesPush(byte, length, bytes, cap) ==
    IF ~byte.ok
    THEN byte
    ELSE IF ~AnyVecPush(bytes, byte.val, cap).ok
         THEN Err(Memory, byte.rest)
         ELSE DecoderBytesLoop(byte.rest, length - 1, AnyVecPush(bytes, byte.val, cap).val, cap)

\* the loop of Decoder::bytes: length more bytes are copied into bytes
DecoderBytesLoop(source, length, bytes, cap) ==
    IF length = 0
    THEN Ok(bytes, source)
    ELSE DecoderBytesPush(DecoderU8(source), length, bytes, cap)

\* Decoder::bytes, once u16() has returned length
DecoderBytesOfLength(length, cap) ==
    IF ~length.ok THEN length ELSE DecoderBytesLoop(length.rest, length.val, <<>>, cap)

\* Decoder::bytes
DecoderBytes(source, cap) == DecoderBytesOfLength(DecoderU16(source), cap)

\* Decoder::raw_remainder
RECURSIVE DecoderRawRemainder(_, _, _)
DecoderRawRemainder(source, raw, cap) ==
    IF source = <<>>
    THEN Ok(raw, source)
    ELSE IF ~AnyVecPush(raw, Head(source), cap).ok
         THEN Err(Memory, Tail(source))
         ELSE DecoderRawRemainder(Tail(source), AnyVecPush(raw, Head(source), cap).val, cap)

\* Decoder::bitmap, most significant bit first
DecoderBitmap(source) ==
    LET byte == DecoderU8(source)
    IN  IF ~byte.ok
        THEN byte
        ELSE Ok([i \in 1..8 |-> Bit(byte.val, 8 - i)], byte.rest)

\* Decoder::header
DecoderHeader(source) ==
    LET byte == DecoderU8(source)
    IN  IF ~byte.ok
        THEN byte
        ELSE Ok(<<byte.val \div 16, [i \in 1..4 |-> Bit(byte.val, 4 - i)]>>, byte.rest)

\* the loop of Decoder::packetlen
RECURSIVE DecoderPacketlenLoop(_, _, _)
DecoderPacketlenLoop(source, pos, value) ==
    IF source = <<>>
    THEN Err(Truncated, source)
    ELSE LET byte == Head(source)
             v == (value * 128) + (byte % 128)
         IN  IF byte >= 128
             THEN IF byte = 128 /\ v = 0
                  THEN Err(SpecViolation, Tail(source))
                  ELSE IF pos > 2
                       THEN Err(SpecViolation, Tail(source))
                       ELSE DecoderPacketlenLoop(Tail(source), pos + 1, v)
             ELSE Ok(v, Tail(source))

\* the loop of Decoder::packetlen without the arm for a leading zero heptet
RECURSIVE DecoderPacketlenLoopLax(_, _, _)
DecoderPacketlenLoopLax(source, pos, value) ==
    IF source = <<>>
    THEN Err(Truncated, source)
    ELSE IF Head(source) < 128
    THEN Ok((value * 128) + Head(source), Tail(source))
    ELSE IF pos > 2
    THEN Err(SpecViolation, Tail(source))
    ELSE DecoderPacketlenLoopLax(Tail(source), pos + 1, (value * 128) + (Head(source) % 128))

\* Decoder::packetlen allowing a fifth byte
DecoderPacketlenFiveBytes(source) == DecoderPacketlenLoop(source, -1, 0)

\* Decoder::packetlen accepting a leading zero heptet
DecoderPacketlenLax(source) == DecoderPacketlenLoopLax(source, 0, 0)

\* Decoder::packetlen
DecoderPacketlen(source) == DecoderPacketlenLoop(source, 0, 0)

\* Ok(Some(value)) of an optional read
OkSome(v) == IF ~v.ok THEN v ELSE Ok(Some(v.val), v.rest)

\* Decoder::optional_u16 reading the number whatever the condition
DecoderOptionalU16Unconditional(source, condition) == OkSome(DecoderU16(source))

\* Decoder::optional_u16
DecoderOptionalU16(source, condition) ==
    IF condition THEN OkSome(DecoderU16(source)) ELSE Ok(None, source)

\* Decoder::optional_bytes reading the field whatever the condition
DecoderOptionalBytesUnconditional(source, condition, cap) ==
    OkSome(DecoderBytes(source, cap))

\* Decoder::optional_bytes
DecoderOptionalBytes(source, condition, cap) ==
    IF condition THEN OkSome(DecoderBytes(source, cap)) ELSE Ok(None, source)

\* Decoder::peek_u8
DecoderPeekU8(source) == IF source = <<>> THEN None ELSE Some(Head(source))

\* Decoder::is_empty on a source that never reports its end
DecoderIsEmptyNever(source) == FALSE

\* Decoder::is_empty
DecoderIsEmpty(source) == source = <<>>

RECURSIVE DecoderTopics(_, _, _, _)
\* the body of the loop of Decoder::topics, once bytes() has returned topic
DecoderTopicsPush(topic, topics, cap, seqcap) ==
    IF ~topic.ok
    THEN topic
    ELSE IF ~AnyVecPush(topics, topic.val, seqcap).ok
         THEN Err(Memory, topic.rest)
         ELSE DecoderTopics(topic.rest, AnyVecPush(topics, topic.val, seqcap).val, cap, seqcap)

\* Decoder::topics
DecoderTopics(source, topics, cap, seqcap) ==
    IF DecoderIsEmpty(source)
    THEN Ok(topics, source)
    ELSE DecoderTopicsPush(DecoderBytes(source, cap), topics, cap, seqcap)

RECURSIVE DecoderTopicsQos(_, _, _, _)
\* the body of the loop of Decoder::topics_qos, once bytes() has returned
\* topic and u8() has returned qos
DecoderTopicsQosPush(topic, qos, topics_qos, cap, seqcap) ==
    IF ~qos.ok
    THEN qos
    ELSE IF ~AnyVecPush(topics_qos, <<topic.val, qos.val>>, seqcap).ok
         THEN Err(Memory, qos.rest)
         ELSE DecoderTopicsQos(qos.rest,
                               AnyVecPush(topics_qos, <<topic.val, qos.val>>, seqcap).val,
                               cap, seqcap)

\* the body of the loop of Decoder::topics_qos, once bytes() has returned topic
DecoderTopicsQosTopic(topic, topics_qos, cap, seqcap) ==
    IF ~topic.ok
    THEN topic
    ELSE DecoderTopicsQosPush(topic, DecoderU8(topic.rest), topics_qos, cap, seqcap)

\* Decoder::topics_qos
DecoderTopicsQos(source, topics_qos, cap, seqcap) ==
    IF DecoderIsEmpty(source)
    THEN Ok(topics_qos, source)
    ELSE DecoderTopicsQosTopic(DecoderBytes(source, cap), topics_qos, cap, seqcap)

(***************************************************************************)
(* Encoder: sink is the bytes its iterator yields; panic is set once a     *)
(* call has panicked, and then no bytes are produced                       *)
(***************************************************************************)
\* Encoder::default
EncoderDefault == [panic |-> FALSE, sink |-> <<>>]

EncoderPanic == [panic |-> TRUE, sink |-> <<>>]

\* self.sink.chain(iter)
Chain(e, bytes) == IF e.panic THEN e ELSE [panic |-> FALSE, sink |-> e.sink \o bytes]

\* Encoder::raw
EncoderRaw(e, raw) == Chain(e, raw)

\* Encoder::u8
EncoderU8(e, u8_) == Chain(e, <<u8_>>)

\* Encoder::u16
EncoderU16(e, u16_) == Chain(e, U16Bytes(u16_))

\* Encoder::bytes
EncoderBytes(e, bytes) ==
    IF Len(bytes) > U16Max THEN EncoderPanic ELSE Chain(e, U16Bytes(Len(bytes)) \o bytes)

\* the byte Encoder::bitmap assembles
BitmapByte(bits) ==
    B2N(bits[1]) * 128 + B2N(bits[2]) * 64 + B2N(bits[3]) * 32 + B2N(bits[4]) * 16
        + B2N(bits[5]) * 8 + B2N(bits[6]) * 4 + B2N(bits[7]) * 2 + B2N(bits[8])

\* Encoder::bitmap
EncoderBitmap(e, bits) == Chain(e, <<BitmapByte(bits)>>)

\* Encoder::header
EncoderHeader(e, type_, flags) ==
    IF type_ > 15
    THEN EncoderPanic
    ELSE Chain(e, <<((type_ * 16) % 256) + B2N(flags[1]) * 8 + B2N(flags[2]) * 4
                        + B2N(flags[3]) * 2 + B2N(flags[4])>>)

\* the number of heptets with the two byte range starting one too late
PacketlenSizeLateSecondByte(len) ==
    IF len >= PacketlenLimit THEN 0
    ELSE IF len >= 2097152 THEN 4
    ELSE IF len >= 16384 THEN 3
    ELSE IF len > 128 THEN 2
    ELSE 1

\* the number of heptets Encoder::packetlen and Length::packetlen choose,
\* 0 where they panic
PacketlenSize(len) ==
    IF len >= PacketlenLimit THEN 0
    ELSE IF len >= 2097152 THEN 4
    ELSE IF len >= 16384 THEN 3
    ELSE IF len >= 128 THEN 2
    ELSE 1

\* the loop of Encoder::packetlen over the four byte array
RECURSIVE EncoderPacketlenLoop(_, _, _, _)
EncoderPacketlenLoop(bytes, len, index, len_size) ==
    IF index >= len_size
    THEN bytes
    ELSE LET rotated == <<bytes[4], bytes[1], bytes[2], bytes[3]>>
             low == (len % 256) % 128
             first == IF index > 0 THEN low + 128 ELSE low
         IN  EncoderPacketlenLoop([rotated EXCEPT ![1] = first], len \div 128, index + 1, len_size)

\* Encoder::packetlen
EncoderPacketlen(e, len) ==
    LET len_size == PacketlenSize(len)
    IN  IF len_size = 0
        THEN EncoderPanic
        ELSE Chain(e, Take(EncoderPacketlenLoop(<<0, 0, 0, 0>>, len, 0, len_size), len_size))

\* Encoder::optional_u16
EncoderOptionalU16(e, u16_) ==
    IF IsSome(u16_) THEN Chain(e, Take(U16Bytes(u16_[1]), 2)) ELSE Chain(e, Take(<<0, 0>>, 0))

\* Encoder::optional_bytes
EncoderOptionalBytes(e, bytes) ==
    IF IsSome(bytes)
    THEN IF Len(bytes[1]) > U16Max
         THEN EncoderPanic
         ELSE Chain(e, Take(U16Bytes(Len(bytes[1])), 2) \o bytes[1])
    ELSE Chain(e, <<>>)

\* Encoder::topics
RECURSIVE EncoderTopics(_, _)
EncoderTopics(e, topics) ==
    IF topics = <<>>
    THEN e
    ELSE EncoderTopics(EncoderBytes(e, Head(topics)), Tail(topics))

\* Encoder::topics_qos
RECURSIVE EncoderTopicsQos(_, _)
EncoderTopicsQos(e, topics_qos) ==
    IF topics_qos = <<>>
    THEN e
    ELSE EncoderTopicsQos(EncoderU8(EncoderBytes(e, Head(topics_qos)[1]), Head(topics_qos)[2]),
                          Tail(topics_qos))

(***************************************************************************)
(* Length: the accumulated length, and whether a call has panicked         *)
(***************************************************************************)
\* Length::new
LengthNew == [panic |-> FALSE, len |-> 0]

LengthPanic == [panic |-> TRUE, len |-> 0]

\* self.len.checked_add(n): usize::MAX is out of reach of the model
LengthAdd(l, n) == IF l.panic THEN l ELSE [panic |-> FALSE, len |-> l.len + n]

\* Length::u8
LengthU8(l) == LengthAdd(l, 1)

\* Length::u16
LengthU16(l) == LengthAdd(l, 2)

\* Length::raw
LengthRaw(l, raw) == LengthAdd(l, Len(raw))

\* Length::bytes leaving the two byte length prefix out
LengthBytesNoPrefix(l, bytes) == LengthAdd(l, Len(bytes))

\* Length::bytes
LengthBytes(l, bytes) == LengthAdd(LengthAdd(l, 2), Len(bytes))

\* Length::bitmap
LengthBitmap(l) == LengthAdd(l, 1)

\* Length::header
LengthHeader(l, type_) == IF type_ > 15 THEN LengthPanic ELSE LengthAdd(l, 1)

\* Length::packetlen
LengthPacketlen(l, len) ==
    IF PacketlenSize(len) = 0 THEN LengthPanic ELSE LengthAdd(l, PacketlenSize(len))

\* Length::optional_u16 counting the two bytes for None as well
LengthOptionalU16Always(l, u16_) == LengthU16(l)

\* Length::optional_u16
LengthOptionalU16(l, u16_) == IF IsSome(u16_) THEN LengthU16(l) ELSE l

\* Length::optional_bytes
LengthOptionalBytes(l, bytes) == IF IsSome(bytes) THEN LengthBytes(l, bytes[1]) ELSE l

\* Length::topics
RECURSIVE LengthTopics(_, _)
LengthTopics(l, topics) ==
    IF topics = <<>> THEN l ELSE LengthTopics(LengthBytes(l, Head(topics)), Tail(topics))

\* Length::topics_qos
RECURSIVE LengthTopicsQos(_, _)
LengthTopicsQos(l, topics_qos) ==
    IF topics_qos = <<>>
    THEN l
    ELSE LengthTopicsQos(LengthU8(LengthBytes(l, Head(topics_qos)[1])), Tail(topics_qos))

\* Encoder::packetlen applied to a computed Length
EncoderPacketlenOf(e, l) == IF l.panic THEN EncoderPanic ELSE EncoderPacketlen(e, l.len)

(***************************************************************************)
(* The packets.  A packet value is a record whose field type is the packet *)
(* type constant; try_from_iter takes the byte source and the capacities   *)
(* of the byte and topic containers, into_iter returns the Encoder built   *)
(***************************************************************************)
NoPkt == [type |-> 0]

\* the tail of a try_from_iter that decodes inside decoder.limit(len): the
\* result of the body, with the source under the limited view left behind
Limited(source, len, body) ==
    IF body.ok
    THEN Ok(body.val, Underlying(source, len, body.rest))
    ELSE Err(body.err, Underlying(source, len, body.rest))

\* Connect::new
ConnectNew(keep_alive_secs, clean_session, client_id, cap) ==
    LET id == AnyVecNew(client_id, cap)
    IN  IF ~id.ok
        THEN id
        ELSE Ok([type |-> ConnectTYPE, keep_alive_secs |-> keep_alive_secs,
                 clean_session |-> clean_session, will_retain |-> FALSE, will_qos |-> 0,
                 client_id |-> id.val, will_topic |-> None, will_message |-> None,
                 username |-> None, password |-> None], <<>>)

\* Connect::with_will
ConnectWithWill(self, topic, message, qos, retain, cap) ==
    LET t == AnyVecNew(topic, cap)
        m == AnyVecNew(message, cap)
    IN  IF ~t.ok THEN t
        ELSE IF ~m.ok THEN m
        ELSE Ok([self EXCEPT !.will_topic = Some(t.val), !.will_message = Some(m.val),
                             !.will_retain = retain, !.will_qos = qos], <<>>)

\* Connect::with_username_password
ConnectWithUsernamePassword(self, username, password, cap) ==
    LET u == AnyVecNew(username, cap)
        p == AnyVecNew(password, cap)
    IN  IF ~u.ok THEN u
        ELSE IF ~p.ok THEN p
        ELSE Ok([self EXCEPT !.username = Some(u.val), !.password = Some(p.val)], <<>>)

\* the fields of Connect::try_from_iter, read from the limited decoder
ConnectFields(decoder, cap) ==
    LET name == DecoderRaw(decoder, 6)
        level == DecoderU8(name.rest)
        flags == DecoderBitmap(level.rest)
        keep_alive_secs == DecoderU16(flags.rest)
        client_id == DecoderBytes(keep_alive_secs.rest, cap)
        will_topic == DecoderOptionalBytes(client_id.rest, flags.val[6], cap)
        will_message == DecoderOptionalBytes(will_topic.rest, flags.val[6], cap)
        username == DecoderOptionalBytes(will_message.rest, flags.val[1], cap)
        password == DecoderOptionalBytes(username.rest, flags.val[2], cap)
    IN  IF ~name.ok THEN name
        ELSE IF name.val # PROTOCOL_NAME THEN Err(SpecViolation, name.rest)
        ELSE IF ~level.ok THEN level
        ELSE IF level.val # PROTOCOL_LEVEL_MQTT_3_1_1 THEN Err(SpecViolation, level.rest)
        ELSE IF ~flags.ok THEN flags
        ELSE IF ~keep_alive_secs.ok THEN keep_alive_secs
        ELSE IF ~client_id.ok THEN client_id
        ELSE IF ~will_topic.ok THEN will_topic
        ELSE IF ~will_message.ok THEN will_message
        ELSE IF ~username.ok THEN username
        ELSE IF ~password.ok THEN password
        ELSE Ok([type |-> ConnectTYPE, keep_alive_secs |-> keep_alive_secs.val,
                 clean_session |-> flags.val[7], will_retain |-> flags.val[3],
                 will_qos |-> B2N(flags.val[4]) * 2 + B2N(flags.val[5]),
                 client_id |-> client_id.val, will_topic |-> will_topic.val,
                 will_message |-> will_message.val, username |-> username.val,
                 password |-> password.val], password.rest)

\* Connect::try_from_iter
ConnectTryFromIter(iter, cap) ==
    LET header == DecoderHeader(iter)
        len == DecoderPacketlen(header.rest)
    IN  IF ~header.ok THEN header
        ELSE IF header.val[1] # ConnectTYPE THEN Err(SpecViolation, header.rest)
        ELSE IF ~len.ok THEN len
        ELSE Limited(len.rest, len.val, ConnectFields(DecoderLimit(len.rest, len.val), cap))

\* the connect flags Connect::into_iter assembles
ConnectFlags(self) ==
    <<IsSome(self.username), IsSome(self.password), self.will_retain,
      (self.will_qos \div 2) # 0, (self.will_qos % 2) # 0,
      IsSome(self.will_topic), self.clean_session, FALSE>>

\* the body length Connect::into_iter precomputes
ConnectLength(self) ==
    LengthOptionalBytes(LengthOptionalBytes(LengthOptionalBytes(LengthOptionalBytes(
        LengthBytes(LengthU16(LengthBitmap(LengthU8(LengthRaw(LengthNew, PROTOCOL_NAME)))),
                    self.client_id),
        self.will_topic), self.will_message), self.username), self.password)

\* Connect::into_iter
ConnectIntoIter(self) ==
    LET e1 == EncoderHeader(EncoderDefault, ConnectTYPE, <<FALSE, FALSE, FALSE, FALSE>>)
        e2 == EncoderPacketlenOf(e1, ConnectLength(self))
        e3 == EncoderRaw(e2, PROTOCOL_NAME)
        e4 == EncoderU8(e3, PROTOCOL_LEVEL_MQTT_3_1_1)
        e5 == EncoderBitmap(e4, ConnectFlags(self))
        e6 == EncoderU16(e5, self.keep_alive_secs)
        e7 == EncoderBytes(e6, self.client_id)
        e8 == EncoderOptionalBytes(e7, self.will_topic)
        e9 == EncoderOptionalBytes(e8, self.will_message)
        e10 == EncoderOptionalBytes(e9, self.username)
    IN  EncoderOptionalBytes(e10, self.password)

\* Connack::new
ConnackNew(session_present, return_code) ==
    [type |-> ConnackTYPE, session_present |-> session_present, return_code |-> return_code]

\* Connack::try_from_iter
\* Connack::try_from_iter taking session_present from the two lowest bits
ConnackTryFromIterTwoBits(iter) ==
    LET header == DecoderHeader(iter)
        len == DecoderPacketlen(header.rest)
        flags == DecoderBitmap(len.rest)
        return_code == DecoderU8(flags.rest)
    IN  IF ~header.ok THEN header
        ELSE IF header.val[1] # ConnackTYPE THEN Err(SpecViolation, header.rest)
        ELSE IF ~len.ok THEN len
        ELSE IF len.val # AckBODY_LEN THEN Err(SpecViolation, len.rest)
        ELSE IF ~flags.ok THEN flags
        ELSE IF ~return_code.ok THEN return_code
        ELSE Ok(ConnackNew(flags.val[7] \/ flags.val[8], return_code.val),
                return_code.rest)

ConnackTryFromIter(iter) ==
    LET header == DecoderHeader(iter)
        len == DecoderPacketlen(header.rest)
        flags == DecoderBitmap(len.rest)
        return_code == DecoderU8(flags.rest)
    IN  IF ~header.ok THEN header
        ELSE IF header.val[1] # ConnackTYPE THEN Err(SpecViolation, header.rest)
        ELSE IF ~len.ok THEN len
        ELSE IF len.val # AckBODY_LEN THEN Err(SpecViolation, len.rest)
        ELSE IF ~flags.ok THEN flags
        ELSE IF ~return_code.ok THEN return_code
        ELSE Ok(ConnackNew(flags.val[8], return_code.val), return_code.rest)

\* Connack::into_iter
ConnackIntoIter(self) ==
    LET e1 == EncoderHeader(EncoderDefault, ConnackTYPE, <<FALSE, FALSE, FALSE, FALSE>>)
        e2 == EncoderPacketlen(e1, AckBODY_LEN)
        e3 == EncoderBitmap(e2, <<FALSE, FALSE, FALSE, FALSE, FALSE, FALSE, FALSE,
                                  self.session_present>>)
    IN  EncoderU8(e3, self.return_code)

\* Publish::new
PublishNew(topic, payload, retain, cap) ==
    LET t == AnyVecNew(topic, cap)
        p == AnyVecNew(payload, cap)
    IN  IF ~t.ok THEN t
        ELSE IF ~p.ok THEN p
        ELSE Ok([type |-> PublishTYPE, dup |-> FALSE, qos |-> 0, retain |-> retain,
                 topic |-> t.val, packet_id |-> None, payload |-> p.val], <<>>)

\* Publish::with_qos
PublishWithQos(self, qos, packet_id, dup) ==
    [self EXCEPT !.dup = dup, !.qos = qos, !.packet_id = Some(packet_id)]

\* the fields of Publish::try_from_iter, read from the limited decoder
PublishFields(decoder, flags, cap) ==
    LET topic == DecoderBytes(decoder, cap)
        packet_id == DecoderOptionalU16(topic.rest, flags[2] \/ flags[3])
        payload == DecoderRawRemainder(packet_id.rest, <<>>, cap)
    IN  IF ~topic.ok THEN topic
        ELSE IF ~packet_id.ok THEN packet_id
        ELSE IF ~payload.ok THEN payload
        ELSE Ok([type |-> PublishTYPE, dup |-> flags[1],
                 qos |-> B2N(flags[2]) * 2 + B2N(flags[3]), retain |-> flags[4],
                 topic |-> topic.val, packet_id |-> packet_id.val,
                 payload |-> payload.val], payload.rest)

\* Publish::try_from_iter
PublishTryFromIter(iter, cap) ==
    LET header == DecoderHeader(iter)
        len == DecoderPacketlen(header.rest)
    IN  IF ~header.ok THEN header
        ELSE IF header.val[1] # PublishTYPE THEN Err(SpecViolation, header.rest)
        ELSE IF ~len.ok THEN len
        ELSE Limited(len.rest, len.val,
                     PublishFields(DecoderLimit(len.rest, len.val), header.val[2], cap))

\* the header flags Publish::into_iter assembles
PublishFlags(self) == <<self.dup, (self.qos \div 2) # 0, (self.qos % 2) # 0, self.retain>>

\* the body length Publish::into_iter precomputes
PublishLength(self) ==
    LengthRaw(LengthOptionalU16(LengthBytes(LengthNew, self.topic), self.packet_id),
              self.payload)

\* Publish::into_iter
PublishIntoIter(self) ==
    LET e1 == EncoderHeader(EncoderDefault, PublishTYPE, PublishFlags(self))
        e2 == EncoderPacketlenOf(e1, PublishLength(self))
        e3 == EncoderBytes(e2, self.topic)
        e4 == EncoderOptionalU16(e3, self.packet_id)
    IN  EncoderRaw(e4, self.payload)

\* the loop of Subscribe::new over the (topic, qos) tuples passed
RECURSIVE SubscribeNewLoop(_, _, _, _)
SubscribeNewLoop(topics, topics_qos, cap, seqcap) ==
    IF topics = <<>>
    THEN Ok(topics_qos, <<>>)
    ELSE LET topic == AnyVecNew(Head(topics)[1], cap)
             pushed == AnyVecPush(topics_qos, <<topic.val, Head(topics)[2]>>, seqcap)
         IN  IF ~topic.ok THEN topic
             ELSE IF ~pushed.ok THEN pushed
             ELSE SubscribeNewLoop(Tail(topics), pushed.val, cap, seqcap)

\* Subscribe::new
SubscribeNew(packet_id, topics, cap, seqcap) ==
    LET topics_qos == SubscribeNewLoop(topics, <<>>, cap, seqcap)
    IN  IF ~topics_qos.ok
        THEN topics_qos
        ELSE Ok([type |-> SubscribeTYPE, packet_id |-> packet_id,
                 topics_qos |-> topics_qos.val], <<>>)

\* the fields of Subscribe::try_from_iter, read from the limited, peekable decoder
SubscribeFields(decoder, cap, seqcap) ==
    LET packet_id == DecoderU16(decoder)
        topics_qos == DecoderTopicsQos(packet_id.rest, <<>>, cap, seqcap)
    IN  IF ~packet_id.ok THEN packet_id
        ELSE IF ~topics_qos.ok THEN topics_qos
        ELSE Ok([type |-> SubscribeTYPE, packet_id |-> packet_id.val,
                 topics_qos |-> topics_qos.val], topics_qos.rest)

\* Subscribe::try_from_iter
\* Subscribe::try_from_iter matching the header on the type alone
SubscribeTryFromIterAnyFlags(iter, cap, seqcap) ==
    LET header == DecoderHeader(iter)
        len == DecoderPacketlen(header.rest)
    IN  IF ~header.ok THEN header
        ELSE IF header.val[1] # SubscribeTYPE
             THEN Err(SpecViolation, header.rest)
        ELSE IF ~len.ok THEN len
        ELSE Limited(len.rest, len.val,
                     SubscribeFields(DecoderLimit(len.rest, len.val), cap, seqcap))

SubscribeTryFromIter(iter, cap, seqcap) ==
    LET header == DecoderHeader(iter)
        len == DecoderPacketlen(header.rest)
    IN  IF ~header.ok THEN header
        ELSE IF header.val # <<SubscribeTYPE, <<FALSE, FALSE, TRUE, FALSE>>>>
             THEN Err(SpecViolation, header.rest)
        ELSE IF ~len.ok THEN len
        ELSE Limited(len.rest, len.val,
                     SubscribeFields(DecoderLimit(len.rest, len.val), cap, seqcap))

\* the body length Subscribe::into_iter precomputes
SubscribeLength(self) == LengthTopicsQos(LengthU16(LengthNew), self.topics_qos)

\* Subscribe::into_iter
SubscribeIntoIter(self) ==
    LET len == SubscribeLength(self)
        e1 == EncoderHeader(EncoderDefault, SubscribeTYPE, <<FALSE, FALSE, TRUE, FALSE>>)
        e2 == EncoderPacketlenOf(e1, len)
        e3 == EncoderU16(e2, self.packet_id)
    IN  EncoderTopicsQos(e3, self.topics_qos)

\* the loop of Unsubscribe::new over the topics passed
RECURSIVE UnsubscribeNewLoop(_, _, _, _)
UnsubscribeNewLoop(topics, topics_, cap, seqcap) ==
    IF topics = <<>>
    THEN Ok(topics_, <<>>)
    ELSE LET topic == AnyVecNew(Head(topics), cap)
             pushed == AnyVecPush(topics_, topic.val, seqcap)
         IN  IF ~topic.ok THEN topic
             ELSE IF ~pushed.ok THEN pushed
             ELSE UnsubscribeNewLoop(Tail(topics), pushed.val, cap, seqcap)

\* Unsubscribe::new
UnsubscribeNew(packet_id, topics, cap, seqcap) ==
    LET topics_ == UnsubscribeNewLoop(topics, <<>>, cap, seqcap)
    IN  IF ~topics_.ok
        THEN topics_
        ELSE Ok([type |-> UnsubscribeTYPE, packet_id |-> packet_id, topics |-> topics_.val],
                <<>>)

\* the fields of Unsubscribe::try_from_iter, read from the limited, peekable decoder
UnsubscribeFields(decoder, cap, seqcap) ==
    LET packet_id == DecoderU16(decoder)
        topics == DecoderTopics(packet_id.rest, <<>>, cap, seqcap)
    IN  IF ~packet_id.ok THEN packet_id
        ELSE IF ~topics.ok THEN topics
        ELSE Ok([type |-> UnsubscribeTYPE, packet_id |-> packet_id.val,
                 topics |-> topics.val], topics.rest)

\* Unsubscribe::try_from_iter
UnsubscribeTryFromIter(iter, cap, seqcap) ==
    LET header == DecoderHeader(iter)
        len == DecoderPacketlen(header.rest)
    IN  IF ~header.ok THEN header
        ELSE IF header.val # <<UnsubscribeTYPE, <<FALSE, FALSE, TRUE, FALSE>>>>
             THEN Err(SpecViolation, header.rest)
        ELSE IF ~len.ok THEN len
        ELSE Limited(len.rest, len.val,
                     UnsubscribeFields(DecoderLimit(len.rest, len.val), cap, seqcap))

\* the body length Unsubscribe::into_iter precomputes
UnsubscribeLength(self) == LengthTopics(LengthU16(LengthNew), self.topics)

\* Unsubscribe::into_iter
UnsubscribeIntoIter(self) ==
    LET len == UnsubscribeLength(self)
        e1 == EncoderHeader(EncoderDefault, UnsubscribeTYPE, <<FALSE, FALSE, TRUE, FALSE>>)
        e2 == EncoderPacketlenOf(e1, len)
        e3 == EncoderU16(e2, self.packet_id)
    IN  EncoderTopics(e3, self.topics)

\* acklike!: $type::new
AckNew(typeconst, packet_id) == [type |-> typeconst, packet_id |-> packet_id]

\* acklike!: try_from_iter without the comparison of the length to BODY_LEN
AckTryFromIterAnyLength(typeconst, iter) ==
    LET header == DecoderHeader(iter)
        len == DecoderPacketlen(header.rest)
        packet_id == DecoderU16(len.rest)
    IN  IF ~header.ok THEN header
        ELSE IF header.val[1] # typeconst THEN Err(SpecViolation, header.rest)
        ELSE IF ~len.ok THEN len
        ELSE IF ~packet_id.ok THEN packet_id
        ELSE Ok(AckNew(typeconst, packet_id.val), packet_id.rest)

\* acklike!: try_from_iter
AckTryFromIter(typeconst, iter) ==
    LET header == DecoderHeader(iter)
        len == DecoderPacketlen(header.rest)
        packet_id == DecoderU16(len.rest)
    IN  IF ~header.ok THEN header
        ELSE IF header.val[1] # typeconst THEN Err(SpecViolation, header.rest)
        ELSE IF ~len.ok THEN len
        ELSE IF len.val # AckBODY_LEN THEN Err(SpecViolation, len.rest)
        ELSE IF ~packet_id.ok THEN packet_id
        ELSE Ok(AckNew(typeconst, packet_id.val), packet_id.rest)

\* acklike!: into_iter
AckIntoIter(self) ==
    LET e1 == EncoderHeader(EncoderDefault, self.type, <<FALSE, FALSE, FALSE, FALSE>>)
        e2 == EncoderPacketlen(e1, AckBODY_LEN)
    IN  EncoderU16(e2, self.packet_id)

\* emptylike!: $type::new
EmptyNew(typeconst) == [type |-> typeconst]

\* emptylike!: try_from_iter
EmptyTryFromIter(typeconst, iter) ==
    LET header == DecoderHeader(iter)
        len == DecoderPacketlen(header.rest)
    IN  IF ~header.ok THEN header
        ELSE IF header.val[1] # typeconst THEN Err(SpecViolation, header.rest)
        ELSE IF ~len.ok THEN len
        ELSE IF len.val # EmptyBODY_LEN THEN Err(SpecViolation, len.rest)
        ELSE Ok(EmptyNew(typeconst), len.rest)

\* emptylike!: into_iter
EmptyIntoIter(self) ==
    EncoderPacketlen(EncoderHeader(EncoderDefault, self.type, <<FALSE, FALSE, FALSE, FALSE>>),
                     EmptyBODY_LEN)

\* <V as TryFromIterator>::try_from_iter for the packet type V with constant type
TryFromIter(type, iter, cap, seqcap) ==
    IF type = ConnectTYPE THEN ConnectTryFromIter(iter, cap)
    ELSE IF type = ConnackTYPE THEN ConnackTryFromIter(iter)
    ELSE IF type = PublishTYPE THEN PublishTryFromIter(iter, cap)
    ELSE IF type = SubscribeTYPE THEN SubscribeTryFromIter(iter, cap, seqcap)
    ELSE IF type = UnsubscribeTYPE THEN UnsubscribeTryFromIter(iter, cap, seqcap)
    ELSE IF type \in AckTypes THEN AckTryFromIter(type, iter)
    ELSE EmptyTryFromIter(type, iter)

\* <V as IntoIterator>::into_iter, also Packet::into_iter, which forwards to it
IntoIter(self) ==
    IF self.type = ConnectTYPE THEN ConnectIntoIter(self)
    ELSE IF self.type = ConnackTYPE THEN ConnackIntoIter(self)
    ELSE IF self.type = PublishTYPE THEN PublishIntoIter(self)
    ELSE IF self.type = SubscribeTYPE THEN SubscribeIntoIter(self)
    ELSE IF self.type = UnsubscribeTYPE THEN UnsubscribeIntoIter(self)
    ELSE IF self.type \in AckTypes THEN AckIntoIter(self)
    ELSE EmptyIntoIter(self)

\* Packet::try_from_iter: the header is taken by decoder.next(), and the
\* packet type selected decodes what the peekable iterator still holds
\* Packet::try_from_iter reporting an unknown type like an empty stream
PacketTryFromIterUnknownAsEmpty(iter, cap, seqcap) ==
    IF iter = <<>>
    THEN Err(Truncated, iter)
    ELSE LET header == Head(iter)
             decoder == Tail(iter)
         IN  IF header \div 16 \in 1..14
             THEN TryFromIter(header \div 16, decoder, cap, seqcap)
             ELSE Err(Truncated, decoder)

PacketTryFromIter(iter, cap, seqcap) ==
    IF iter = <<>>
    THEN Err(Truncated, iter)
    ELSE LET header == Head(iter)
             decoder == Tail(iter)
         IN  IF header \div 16 \in 1..14
             THEN TryFromIter(header \div 16, decoder, cap, seqcap)
             ELSE Err(SpecViolation, decoder)

(***************************************************************************)
(* The inputs callers and peers choose from                                *)
(***************************************************************************)
Backends == {"std", "arrayvec"}

\* capacity of the byte container / the topic container of a backend
BytesCapOf(b) == IF b = "std" THEN Unbounded ELSE BytesCap
SeqCapOf(b) == IF b = "std" THEN Unbounded ELSE SeqCap

\* the byte fields of at most MaxLen bytes, all of them the byte c
Field(c) == {[i \in 1..k |-> c] : k \in 0..MaxLen}

KeepAlives == {258}
ReturnCodes == {0, 5}
PacketIds == {7, 1031}
\* the qos arguments passed to with_will, with_qos and Subscribe::new: the u8
\* values 0, 1, 2 and, as with_will and with_qos take any u8, 4
QosArgs == {0, 1, 2, 4}
ValidQos == {0, 1, 2}

\* the topic lists of at most MaxTopics entries, for SUBSCRIBE and UNSUBSCRIBE
TopicsQosLists == UNION {[1..k -> Field(116) \X ValidQos] : k \in 0..MaxTopics}
TopicsLists == UNION {[1..k -> Field(116)] : k \in 0..MaxTopics}

\* the lengths passed to Encoder::packetlen: the ends of the four heptet
\* ranges, the first lengths without an encoding, and a stride through the rest
PacketLens ==
    {0, 1, 85, 127, 128, 129, 8192, 10965, 16383, 16384, 16385, 1048576, 1403605,
     2097151, 2097152, 2097153, 134217728, 179661525, 268435454, 268435455,
     PacketlenLimit, PacketlenLimit + 1, 1073741824}
        \cup {k * 1234567 + 89 : k \in 0..200}

\* the bytes the peer puts in place of a byte of the packet: a protocol level
\* that is not 4 (0x05), connect flags without and with the will flag (0x18,
\* 0x3C), headers of the unknown types 0 and 15 (0x05, 0xF0)
TamperBytes == {5, 24, 60, 240}

\* the bytes the peer pads the remaining-length region with
PadBytes == {0}

\* bytes that follow the encoded length in the source
Trailers == {<<>>, <<128>>, <<127, 1>>}

\* the values of the flags nibble of a header
FlagNibbles == 0..15

\* the non-zero values of the bits 1..7 of the CONNACK acknowledge flags
ReservedAckBits == 1..127

NoRes == [ok |-> FALSE, val |-> <<>>, err |-> "none", rest |-> <<>>]

(***************************************************************************)
(* The state machine: a caller builds a packet, encodes it, the bytes      *)
(* travel, possibly cut or changed by the peer, and a caller decodes them  *)
(***************************************************************************)
\* no AnyVec method has been called
NoCall == [op |-> "none"]

\* no limited decoder has been made
NoLimit == [source |-> <<>>, n |-> 0, left |-> 0, peeked |-> <<>>, out |-> <<>>]

Init ==
    /\ phase = "init"
    /\ backend \in Backends
    /\ pkt = NoPkt
    /\ enc = EncoderDefault
    /\ wire = <<>>
    /\ tamper = "none"
    /\ res = NoRes
    /\ via = "none"
    /\ lenIn = -1
    /\ vec = <<>>
    /\ call = NoCall
    /\ sent = <<>>
    /\ got = <<>>
    /\ meter = LengthNew
    /\ lim = NoLimit
    /\ features = {backend}

\* a constructor or builder returned r: the packet, or the Memory error
Built(r) ==
    /\ phase' = IF r.ok THEN "built" ELSE "failed"
    /\ pkt' = IF r.ok THEN r.val ELSE NoPkt
    /\ res' = IF r.ok THEN NoRes ELSE Err(r.err, <<>>)
    /\ UNCHANGED <<backend, enc, wire, tamper, via, lenIn, vec, call, features, sent, got, meter, lim>>

NewConnect ==
    /\ phase = "init"
    /\ \E k \in KeepAlives, c \in BOOLEAN, id \in Field(99) :
            Built(ConnectNew(k, c, id, BytesCapOf(backend)))

WithWill ==
    /\ phase = "built"
    /\ pkt.type = ConnectTYPE
    /\ \E t \in Field(116), m \in Field(109), q \in QosArgs, r \in BOOLEAN :
            Built(ConnectWithWill(pkt, t, m, q, r, BytesCapOf(backend)))

WithUsernamePassword ==
    /\ phase = "built"
    /\ pkt.type = ConnectTYPE
    /\ \E u \in Field(117), p \in Field(112) :
            Built(ConnectWithUsernamePassword(pkt, u, p, BytesCapOf(backend)))

NewConnack ==
    /\ phase = "init"
    /\ \E s \in BOOLEAN, c \in ReturnCodes : Built(Ok(ConnackNew(s, c), <<>>))

NewPublish ==
    /\ phase = "init"
    /\ \E t \in Field(116), p \in Field(112), r \in BOOLEAN :
            Built(PublishNew(t, p, r, BytesCapOf(backend)))

WithQos ==
    /\ phase = "built"
    /\ pkt.type = PublishTYPE
    /\ \E q \in QosArgs, id \in PacketIds, d \in BOOLEAN :
            Built(Ok(PublishWithQos(pkt, q, id, d), <<>>))

NewSubscribe ==
    /\ phase = "init"
    /\ \E id \in PacketIds, ts \in TopicsQosLists :
            Built(SubscribeNew(id, ts, BytesCapOf(backend), SeqCapOf(backend)))

NewUnsubscribe ==
    /\ phase = "init"
    /\ \E id \in PacketIds, ts \in TopicsLists :
            Built(UnsubscribeNew(id, ts, BytesCapOf(backend), SeqCapOf(backend)))

NewAck ==
    /\ phase = "init"
    /\ \E t \in AckTypes, id \in PacketIds : Built(Ok(AckNew(t, id), <<>>))

NewEmpty ==
    /\ phase = "init"
    /\ \E t \in EmptyTypes : Built(Ok(EmptyNew(t), <<>>))

\* packet.into_iter().collect()
Encode ==
    /\ phase = "built"
    /\ phase' = "encoded"
    /\ enc' = IntoIter(pkt)
    /\ wire' = IntoIter(pkt).sink
    /\ UNCHANGED <<backend, pkt, tamper, res, via, lenIn, vec, call, features, sent, got, meter, lim>>

\* V::try_from_iter(wire), V the packet type of the packet sent
Decode ==
    /\ phase = "encoded"
    /\ ~enc.panic
    /\ phase' = "decoded"
    /\ via' = "variant"
    /\ res' = TryFromIter(pkt.type, wire, BytesCapOf(backend), SeqCapOf(backend))
    /\ UNCHANGED <<backend, pkt, enc, wire, tamper, lenIn, vec, call, features, sent, got, meter, lim>>

\* Packet::try_from_iter(wire)
DecodePacket ==
    /\ phase = "encoded"
    /\ ~enc.panic
    /\ phase' = "decoded"
    /\ via' = "packet"
    /\ res' = PacketTryFromIter(wire, BytesCapOf(backend), SeqCapOf(backend))
    /\ UNCHANGED <<backend, pkt, enc, wire, tamper, lenIn, vec, call, features, sent, got, meter, lim>>

\* Encoder::default().packetlen(len).into_iter().collect()
EncodePacketlen ==
    /\ phase = "init"
    /\ \E len \in PacketLens :
        /\ lenIn' = len
        /\ enc' = EncoderPacketlen(EncoderDefault, len)
        /\ wire' = EncoderPacketlen(EncoderDefault, len).sink
    /\ phase' = "lenencoded"
    /\ UNCHANGED <<backend, pkt, tamper, res, via, vec, call, features, sent, got, meter, lim>>

\* Decoder::new(wire followed by more bytes).packetlen()
DecodePacketlen ==
    /\ phase = "lenencoded"
    /\ ~enc.panic
    /\ \E t \in Trailers :
        /\ wire' = wire \o t
        /\ res' = DecoderPacketlen(wire \o t)
    /\ phase' = "decoded"
    /\ via' = "packetlen"
    /\ UNCHANGED <<backend, pkt, enc, tamper, lenIn, vec, call, features, sent, got, meter, lim>>

\* the peer cuts the stream after k bytes
Truncate ==
    /\ phase = "encoded"
    /\ ~enc.panic
    /\ tamper = "none"
    /\ \E k \in 0..(Len(wire) - 1) : wire' = Take(wire, k)
    /\ tamper' = "prefix"
    /\ UNCHANGED <<phase, backend, pkt, enc, res, via, lenIn, vec, call, features, sent, got, meter, lim>>

\* the stream the peer sends instead of w: the header of w, the remaining
\* length n, the body of w and the bytes extra
Reframe(w, n, extra) ==
    <<Head(w)>> \o EncoderPacketlen(EncoderDefault, n).sink
        \o DecoderPacketlen(Tail(w)).rest \o extra

\* the remaining length the encoded packet declares
DeclaredLen(w) == DecoderPacketlen(Tail(w)).val

\* the peer declares a longer remaining length and fills the region with
\* bytes that follow the last field
PadRegion ==
    /\ phase = "encoded"
    /\ ~enc.panic
    /\ tamper = "none"
    /\ \E k \in 1..MaxPad, b \in PadBytes :
            wire' = Reframe(wire, DeclaredLen(wire) + k, [i \in 1..k |-> b])
    /\ tamper' = "pad"
    /\ UNCHANGED <<phase, backend, pkt, enc, res, via, lenIn, vec, call, features, sent, got, meter, lim>>

\* the peer declares a remaining length that is d bytes short of the body
\* it sends
ShrinkRegion ==
    /\ phase = "encoded"
    /\ ~enc.panic
    /\ tamper = "none"
    /\ \E d \in 1..DeclaredLen(wire) : wire' = Reframe(wire, DeclaredLen(wire) - d, <<>>)
    /\ tamper' = "shrink"
    /\ UNCHANGED <<phase, backend, pkt, enc, res, via, lenIn, vec, call, features, sent, got, meter, lim>>

\* the peer sends the byte b in place of byte i
SetByte ==
    /\ phase = "encoded"
    /\ ~enc.panic
    /\ tamper = "none"
    /\ \E i \in 1..Len(wire), b \in TamperBytes :
        /\ wire[i] # b
        /\ wire' = [wire EXCEPT ![i] = b]
    /\ tamper' = "setbyte"
    /\ UNCHANGED <<phase, backend, pkt, enc, res, via, lenIn, vec, call, features, sent, got, meter, lim>>

\* the peer sends the packet with another flags nibble in its header
SetFlags ==
    /\ phase = "encoded"
    /\ ~enc.panic
    /\ tamper = "none"
    /\ \E f \in FlagNibbles :
        /\ Head(wire) % 16 # f
        /\ wire' = <<(Head(wire) \div 16) * 16 + f>> \o Tail(wire)
    /\ tamper' = "flags"
    /\ UNCHANGED <<phase, backend, pkt, enc, res, via, lenIn, vec, call, features, sent, got, meter, lim>>

\* the peer sends the CONNACK with some of the bits 1..7 of the
\* acknowledge flags set
SetAckFlags ==
    /\ phase = "encoded"
    /\ ~enc.panic
    /\ tamper = "none"
    /\ pkt.type = ConnackTYPE
    /\ \E h \in ReservedAckBits :
        wire' = [wire EXCEPT ![3] = (wire[3] % 2) + 2 * h]
    /\ tamper' = "ackflags"
    /\ UNCHANGED <<phase, backend, pkt, enc, res, via, lenIn, vec, call, features, sent, got, meter, lim>>

Next ==
    \/ NewConnect \/ WithWill \/ WithUsernamePassword
    \/ NewConnack
    \/ NewPublish \/ WithQos
    \/ NewSubscribe \/ NewUnsubscribe
    \/ NewAck \/ NewEmpty
    \/ Encode \/ Decode \/ DecodePacket
    \/ EncodePacketlen \/ DecodePacketlen

Spec == Init /\ [][Next]_vars

NextPrefix == Next \/ Truncate

SpecPrefix == Init /\ [][NextPrefix]_vars

\* the backends of AnyVec
VecBackends == {"std", "arrayvec", "heapless"}

\* the elements stored, the slices handed to extend and the indices handed
\* to insert
VecElems == {1, 2}
VecSlices == UNION {[1..n -> VecElems] : n \in 0..MaxExtend}
VecIndices == 0..(VecCap + 2)

\* the states in which a vector can hold another element in the model: a
\* Vec<T> is kept within the length a fixed-capacity vector can reach
Growable == backend # "std" \/ Len(vec) < VecCap

\* a fresh vector on one of the backends, no packet under way
InitVec ==
    /\ phase = "vec"
    /\ backend \in VecBackends
    /\ pkt = NoPkt
    /\ enc = EncoderDefault
    /\ wire = <<>>
    /\ tamper = "none"
    /\ res = NoRes
    /\ via = "none"
    /\ lenIn = -1
    /\ vec = <<>>
    /\ call = NoCall
    /\ sent = <<>>
    /\ got = <<>>
    /\ meter = LengthNew
    /\ lim = NoLimit
    /\ features = {backend}

\* vec.insert(index, element)
VecInsert ==
    /\ phase = "vec"
    /\ Growable
    /\ \E index \in VecIndices, element \in VecElems, reserved \in BOOLEAN :
        /\ backend # "std" => reserved
        /\ vec' = Insert(backend, vec, index, element, VecCap, reserved).vec
        /\ call' = [op |-> "insert", before |-> vec, index |-> index,
                    element |-> element, reserved |-> reserved,
                    out |-> Insert(backend, vec, index, element, VecCap, reserved)]
    /\ UNCHANGED <<phase, backend, pkt, enc, wire, tamper, res, via, lenIn, features, sent, got, meter, lim>>

\* vec.push(element)
VecPush ==
    /\ phase = "vec"
    /\ Growable
    /\ \E element \in VecElems, reserved \in BOOLEAN :
        /\ backend # "std" => reserved
        /\ vec' = Push(backend, vec, element, VecCap, reserved).vec
        /\ call' = [op |-> "push", before |-> vec, element |-> element,
                    reserved |-> reserved,
                    out |-> Push(backend, vec, element, VecCap, reserved)]
    /\ UNCHANGED <<phase, backend, pkt, enc, wire, tamper, res, via, lenIn, features, sent, got, meter, lim>>

\* vec.extend(elements)
VecExtend ==
    /\ phase = "vec"
    /\ \E elements \in VecSlices, reserved \in BOOLEAN :
        /\ backend # "std" => reserved
        /\ backend = "std" /\ reserved => Len(vec) + Len(elements) <= VecCap
        /\ vec' = Extend(backend, vec, elements, VecCap, reserved).vec
        /\ call' = [op |-> "extend", before |-> vec, elements |-> elements,
                    reserved |-> reserved,
                    out |-> Extend(backend, vec, elements, VecCap, reserved)]
    /\ UNCHANGED <<phase, backend, pkt, enc, wire, tamper, res, via, lenIn, features, sent, got, meter, lim>>

\* the backend features of the crate
Features == {"std", "arrayvec", "heapless"}

\* lib.rs: the cfg attribute on include!("_defaults.rs")
DefaultsIncluded(fs) == "std" \in fs \/ "arrayvec" \in fs

\* _defaults.rs: the cfg attribute on compile_error!
SanityCheckFails(fs) ==
    ~ \/ ("std" \in fs /\ ~("arrayvec" \in fs \/ "heapless" \in fs))
      \/ ("heapless" \in fs /\ ~("std" \in fs \/ "arrayvec" \in fs))
      \/ ("arrayvec" \in fs /\ ~("heapless" \in fs \/ "std" \in fs))

\* the build with the features fs reaches compile_error!
CompileError(fs) == DefaultsIncluded(fs) /\ SanityCheckFails(fs)

\* a crate not yet built, with any selection of the backend features
InitBuild ==
    /\ phase = "unbuilt"
    /\ features \in SUBSET Features
    /\ backend = "none"
    /\ pkt = NoPkt
    /\ enc = EncoderDefault
    /\ wire = <<>>
    /\ tamper = "none"
    /\ res = NoRes
    /\ via = "none"
    /\ lenIn = -1
    /\ vec = <<>>
    /\ call = NoCall
    /\ sent = <<>>
    /\ got = <<>>
    /\ meter = LengthNew
    /\ lim = NoLimit

\* the crate is compiled with the selected features; an accepted build
\* with a backend goes on to use the vectors of that backend
Build ==
    /\ phase = "unbuilt"
    /\ phase' = IF CompileError(features) THEN "rejected"
                ELSE IF features = {} THEN "nobackend"
                ELSE "vec"
    /\ backend' = IF ~CompileError(features) /\ features # {}
                  THEN CHOOSE f \in features : TRUE
                  ELSE "none"
    /\ UNCHANGED <<pkt, enc, wire, tamper, res, via, lenIn, vec, call, features, sent, got, meter, lim>>

NextVec == VecInsert \/ VecPush \/ VecExtend

SpecVec == InitVec /\ [][NextVec]_vars

NextBuild == Build \/ NextVec

SpecBuild == InitBuild /\ [][NextBuild]_vars

\* the values the specification calls valid: QoS values in 0..2, and a
\* PUBLISH packet id present exactly when qos > 0
Valid(p) ==
    /\ p.type = ConnectTYPE => p.will_qos \in ValidQos
    /\ p.type = PublishTYPE => p.qos \in ValidQos /\ (IsSome(p.packet_id) <=> p.qos > 0)
    /\ p.type = SubscribeTYPE =>
            \A i \in 1..Len(p.topics_qos) : p.topics_qos[i][2] \in ValidQos

\* the packets a peer sends right before and right after the packet pkt on
\* the same stream
Followers ==
    {AckNew(PubackTYPE, id) : id \in PacketIds} \cup {EmptyNew(PingreqTYPE)}

\* the packets of the stream, pkt alone if nothing was put before or after
Stream == IF sent = <<>> THEN <<pkt>> ELSE sent

\* the encoding of q is put on the stream after the encoding of pkt
Follow ==
    /\ phase = "encoded"
    /\ ~enc.panic
    /\ Valid(pkt)
    /\ tamper \in {"none", "preceded"}
    /\ \E q \in Followers :
        /\ wire' = wire \o IntoIter(q).sink
        /\ sent' = Append(Stream, q)
    /\ tamper' = IF tamper = "none" THEN "followed" ELSE "both"
    /\ UNCHANGED <<phase, backend, pkt, enc, res, via, lenIn, vec, call, features, got, meter, lim>>

\* the encoding of q is put on the stream before the encoding of pkt
Precede ==
    /\ phase = "encoded"
    /\ ~enc.panic
    /\ Valid(pkt)
    /\ tamper \in {"none", "followed"}
    /\ \E q \in Followers :
        /\ wire' = IntoIter(q).sink \o wire
        /\ sent' = <<q>> \o Stream
    /\ tamper' = IF tamper = "none" THEN "preceded" ELSE "both"
    /\ UNCHANGED <<phase, backend, pkt, enc, res, via, lenIn, vec, call, features, got, meter, lim>>

\* V::try_from_iter(&mut stream), with V the variant of the next packet sent
Receive ==
    /\ phase \in {"encoded", "receiving"}
    /\ sent # <<>>
    /\ Len(got) < Len(sent)
    /\ \A i \in 1..Len(got) : got[i].ok
    /\ phase' = "receiving"
    /\ got' = Append(got, TryFromIter(sent[Len(got) + 1].type, wire,
                                      BytesCapOf(backend), SeqCapOf(backend)))
    /\ wire' = TryFromIter(sent[Len(got) + 1].type, wire,
                           BytesCapOf(backend), SeqCapOf(backend)).rest
    /\ UNCHANGED <<backend, pkt, enc, tamper, res, via, lenIn, vec, call, features, sent, meter, lim>>

NextStream ==
    \/ NewConnect \/ WithWill \/ WithUsernamePassword
    \/ NewConnack
    \/ NewPublish \/ WithQos
    \/ NewSubscribe \/ NewUnsubscribe
    \/ NewAck \/ NewEmpty
    \/ Encode \/ Follow \/ Precede \/ Receive

SpecStream == Init /\ [][NextStream]_vars

\* byte fields of the greatest length a length prefix can express, and of
\* one byte more
AtLimit == [i \in 1..U16Max |-> 0]
OverLimit == [i \in 1..(U16Max + 1) |-> 0]

\* the arguments of the primitive operations; a field of the greatest
\* length is written to an empty encoder only
OpsU8 == {0, 255}
OpsFields ==
    Field(1) \cup {OverLimit} \cup (IF enc.sink = <<>> THEN {AtLimit} ELSE {})
OpsBitmaps == {[i \in 1..8 |-> FALSE], [i \in 1..8 |-> i % 2 = 1]}
OpsTypes == {0, 15, 16}
OpsFlags == {<<FALSE, FALSE, FALSE, FALSE>>, <<TRUE, FALSE, TRUE, TRUE>>}
OpsLens == {0, 127, 128, 16384, 2097152, PacketlenLimit - 1, PacketlenLimit}
OpsOptionalU16 == {None} \cup {Some(id) : id \in PacketIds}
OpsOptionalFields == {None} \cup {Some(f) : f \in OpsFields}
OpsTopics == TopicsLists \cup {<<OverLimit>>}
OpsTopicsQos == TopicsQosLists \cup {<<<<OverLimit, 1>>>>}

\* a fresh Encoder and a fresh Length
InitOps ==
    /\ phase = "ops"
    /\ backend \in Backends
    /\ pkt = NoPkt
    /\ enc = EncoderDefault
    /\ wire = <<>>
    /\ tamper = "none"
    /\ res = NoRes
    /\ via = "none"
    /\ lenIn = -1
    /\ vec = <<>>
    /\ call = NoCall
    /\ sent = <<>>
    /\ got = <<>>
    /\ meter = LengthNew
    /\ lim = NoLimit
    /\ features = {backend}

\* another primitive operation can be applied to the encoder and the meter
Writable ==
    /\ phase = "ops"
    /\ ~enc.panic /\ ~meter.panic
    /\ Len(enc.sink) < MaxSink

\* the operation op brought the encoder to e and the meter to l
Applied(op, e, l) ==
    /\ enc' = e
    /\ meter' = l
    /\ call' = [op |-> op]
    /\ UNCHANGED <<phase, backend, pkt, wire, tamper, res, via, lenIn, vec, features, sent, got, lim>>

OpU8 ==
    Writable /\ \E b \in OpsU8 : Applied("u8", EncoderU8(enc, b), LengthU8(meter))

OpU16 ==
    Writable /\ \E v \in PacketIds : Applied("u16", EncoderU16(enc, v), LengthU16(meter))

OpRaw ==
    Writable /\ \E r \in Field(1) : Applied("raw", EncoderRaw(enc, r), LengthRaw(meter, r))

OpBytes ==
    Writable /\ \E f \in OpsFields :
        Applied("bytes", EncoderBytes(enc, f), LengthBytes(meter, f))

OpBitmap ==
    Writable /\ \E bits \in OpsBitmaps :
        Applied("bitmap", EncoderBitmap(enc, bits), LengthBitmap(meter))

OpHeader ==
    Writable /\ \E t \in OpsTypes, flags \in OpsFlags :
        Applied("header", EncoderHeader(enc, t, flags), LengthHeader(meter, t))

OpPacketlen ==
    Writable /\ \E len \in OpsLens :
        Applied("packetlen", EncoderPacketlen(enc, len), LengthPacketlen(meter, len))

OpOptionalU16 ==
    Writable /\ \E v \in OpsOptionalU16 :
        Applied("optional_u16", EncoderOptionalU16(enc, v), LengthOptionalU16(meter, v))

OpOptionalBytes ==
    Writable /\ \E f \in OpsOptionalFields :
        Applied("optional_bytes", EncoderOptionalBytes(enc, f), LengthOptionalBytes(meter, f))

OpTopics ==
    Writable /\ \E ts \in OpsTopics :
        Applied("topics", EncoderTopics(enc, ts), LengthTopics(meter, ts))

OpTopicsQos ==
    Writable /\ \E tq \in OpsTopicsQos :
        Applied("topics_qos", EncoderTopicsQos(enc, tq), LengthTopicsQos(meter, tq))

NextOps ==
    \/ OpU8 \/ OpU16 \/ OpRaw \/ OpBytes \/ OpBitmap \/ OpHeader \/ OpPacketlen
    \/ OpOptionalU16 \/ OpOptionalBytes \/ OpTopics \/ OpTopicsQos

SpecOps == InitOps /\ [][NextOps]_vars

\* the bytes and the sources handed to the primitives of the decoder
RawBytes == {0, 1, 127, 128, 255}
RawStreams == UNION {[1..k -> RawBytes] : k \in 0..MaxRaw}

\* a source of bytes that no primitive has read yet
InitWire ==
    /\ phase = "wire"
    /\ backend \in Backends
    /\ wire \in RawStreams
    /\ pkt = NoPkt
    /\ enc = EncoderDefault
    /\ tamper = "none"
    /\ res = NoRes
    /\ via = "none"
    /\ lenIn = -1
    /\ vec = <<>>
    /\ call = NoCall
    /\ sent = <<>>
    /\ got = <<>>
    /\ meter = LengthNew
    /\ lim = NoLimit
    /\ features = {backend}

\* the primitive op, called with the arguments args, returned r
Read(op, args, r) ==
    /\ phase' = "read"
    /\ call' = [op |-> op, args |-> args]
    /\ res' = r
    /\ UNCHANGED <<backend, pkt, enc, wire, tamper, via, lenIn, vec, features, sent, got, meter, lim>>

\* Decoder::new(wire).packetlen()
ReadPacketlen ==
    /\ phase = "wire"
    /\ Read("packetlen", <<>>, DecoderPacketlen(wire))

\* Decoder::new(wire).optional_u16(condition)
ReadOptionalU16 ==
    /\ phase = "wire"
    /\ \E condition \in BOOLEAN :
            Read("optional_u16", <<condition>>, DecoderOptionalU16(wire, condition))

\* Decoder::new(wire).optional_bytes(condition)
ReadOptionalBytes ==
    /\ phase = "wire"
    /\ \E condition \in BOOLEAN :
            Read("optional_bytes", <<condition>>,
                 DecoderOptionalBytes(wire, condition, BytesCapOf(backend)))

NextWire == ReadPacketlen \/ ReadOptionalU16 \/ ReadOptionalBytes

SpecWire == InitWire /\ [][NextWire]_vars

(***************************************************************************)
(* A limited, peekable decoder over a raw source                           *)
(***************************************************************************)
ViewBytes == {0, 1}
ViewStreams == UNION {[1..k -> ViewBytes] : k \in 0..MaxView}

InitLimit ==
    /\ phase = "wire"
    /\ backend \in Backends
    /\ wire \in ViewStreams
    /\ pkt = NoPkt
    /\ enc = EncoderDefault
    /\ tamper = "none"
    /\ res = NoRes
    /\ via = "none"
    /\ lenIn = -1
    /\ vec = <<>>
    /\ call = NoCall
    /\ sent = <<>>
    /\ got = <<>>
    /\ meter = LengthNew
    /\ lim = NoLimit
    /\ features = {backend}

\* Decoder::new(&mut wire).limit(n).peekable(): wire is what the underlying
\* iterator has not yielded yet, lim.left the count of the Take adapter,
\* lim.peeked the byte the Peekable adapter holds, lim.out the bytes the
\* reads have drawn from the limited decoder
Limit ==
    /\ phase = "wire"
    /\ phase' = "limited"
    /\ \E n \in 0..(Len(wire) + 1) :
            lim' = [source |-> wire, n |-> n, left |-> n, peeked |-> <<>>, out |-> <<>>]
    /\ UNCHANGED <<backend, pkt, enc, wire, tamper, res, via, lenIn, vec, call, features,
                   sent, got, meter>>

\* the bytes the limited decoder can still yield
View == lim.peeked \o DecoderLimit(wire, lim.left)

\* the number of bytes a read that returned r took from the limited
\* decoder, and the number of them it drew from the Take adapter
Used(r) == Len(View) - Len(r.rest)
Drawn(r) == IF Used(r) > Len(lim.peeked) THEN Used(r) - Len(lim.peeked) ELSE 0

\* a read of the limited decoder has returned r
LimitedRead(op, r) ==
    /\ phase = "limited"
    /\ call' = [op |-> op, view |-> View, source |-> lim.peeked \o wire]
    /\ res' = r
    /\ lim' = [lim EXCEPT !.left = @ - Drawn(r),
                          !.peeked = IF Used(r) > 0 THEN <<>> ELSE @,
                          !.out = @ \o Take(View, Used(r))]
    /\ wire' = Drop(wire, Drawn(r))
    /\ UNCHANGED <<phase, backend, pkt, enc, tamper, via, lenIn, vec, features, sent, got,
                   meter>>

\* Peekable::peek draws a byte from the Take adapter unless it holds one
Fetches == lim.peeked = <<>> /\ lim.left > 0 /\ wire # <<>>

\* a peek of the limited decoder has returned value
LimitedPeek(op, value) ==
    /\ phase = "limited"
    /\ call' = [op |-> op, view |-> View, source |-> lim.peeked \o wire]
    /\ res' = Ok(value, View)
    /\ lim' = [lim EXCEPT !.left = IF Fetches THEN @ - 1 ELSE @,
                          !.peeked = IF Fetches THEN <<Head(wire)>> ELSE @]
    /\ wire' = IF Fetches THEN Tail(wire) ELSE wire
    /\ UNCHANGED <<phase, backend, pkt, enc, tamper, via, lenIn, vec, features, sent, got,
                   meter>>

LimitedU8 == LimitedRead("u8", DecoderU8(View))

LimitedU16 == LimitedRead("u16", DecoderU16(View))

LimitedBytes == LimitedRead("bytes", DecoderBytes(View, BytesCapOf(backend)))

LimitedRawRemainder ==
    LimitedRead("raw_remainder", DecoderRawRemainder(View, <<>>, BytesCapOf(backend)))

LimitedPeekU8 == LimitedPeek("peek_u8", DecoderPeekU8(View))

LimitedIsEmpty == LimitedPeek("is_empty", DecoderIsEmpty(View))

LimitedTopics ==
    LimitedRead("topics",
                DecoderTopics(View, <<>>, BytesCapOf(backend), SeqCapOf(backend)))

LimitedTopicsQos ==
    LimitedRead("topics_qos",
                DecoderTopicsQos(View, <<>>, BytesCapOf(backend), SeqCapOf(backend)))

NextLimit ==
    \/ Limit
    \/ LimitedU8 \/ LimitedU16 \/ LimitedBytes \/ LimitedRawRemainder
    \/ LimitedPeekU8 \/ LimitedIsEmpty
    \/ LimitedTopics \/ LimitedTopicsQos

SpecLimit == InitLimit /\ [][NextLimit]_vars

(***************************************************************************)
(* The Reader and the Writer over std::io                                  *)
(***************************************************************************)
\* ErrorKind of the Reader
TruncatedData == "TruncatedData"
InvalidValue == "InvalidValue"

\* the loop of Writer::write_packetlen: bytes.rotate_right(1) and the store
\* to bytes[0] push the next heptet to the front of the four-byte array
RECURSIVE WriterPacketlenLoop(_, _, _)
WriterPacketlenLoop(len, bytes, bytes_len) ==
    IF len > 0
    THEN WriterPacketlenLoop(len \div 128,
                             <<((len % 256) % 128) + (IF bytes_len > 0 THEN 128 ELSE 0)>>
                                \o Take(bytes, 3),
                             bytes_len + 1)
    ELSE IF bytes_len > Len(bytes)
         THEN [panic |-> TRUE, sink |-> <<>>]
         ELSE [panic |-> FALSE, sink |-> Take(bytes, bytes_len)]

\* Writer::new(Vec::new()).write_packetlen(len)
WriterWritePacketlen(len) == WriterPacketlenLoop(len, <<0, 0, 0, 0>>, 0)

\* the loop of Reader::read_packetlen over the bytes of the source, pos
\* bytes read so far
RECURSIVE ReaderPacketlenLoop(_, _, _)
ReaderPacketlenLoop(source, pos, len) ==
    IF source = <<>>
    THEN Err(TruncatedData, source)
    ELSE IF Head(source) >= 128
         THEN IF pos < 3
              THEN ReaderPacketlenLoop(Tail(source), pos + 1,
                                       (len * 128) + (Head(source) % 128))
              ELSE Err(InvalidValue, Tail(source))
         ELSE Ok((len * 128) + (Head(source) % 128), Tail(source))

\* Reader::read_packetlen
ReaderReadPacketlen(source) == ReaderPacketlenLoop(source, 0, 0)

InitIo ==
    /\ phase = "io"
    /\ backend = "std"
    /\ wire = <<>>
    /\ pkt = NoPkt
    /\ enc = EncoderDefault
    /\ tamper = "none"
    /\ res = NoRes
    /\ via = "none"
    /\ lenIn = -1
    /\ vec = <<>>
    /\ call = NoCall
    /\ sent = <<>>
    /\ got = <<>>
    /\ meter = LengthNew
    /\ lim = NoLimit
    /\ features = {backend}

\* Writer::new(Vec::new()).write_packetlen(len)
WritePacketlen ==
    /\ phase = "io"
    /\ \E len \in PacketLens :
        /\ lenIn' = len
        /\ enc' = WriterWritePacketlen(len)
        /\ wire' = WriterWritePacketlen(len).sink
    /\ phase' = "written"
    /\ UNCHANGED <<backend, pkt, tamper, res, via, vec, call, features, sent, got, meter, lim>>

\* Reader::new(wire).read_packetlen() on the bytes written
ReadWritten ==
    /\ phase = "written"
    /\ ~enc.panic
    /\ res' = ReaderReadPacketlen(wire)
    /\ phase' = "reread"
    /\ UNCHANGED <<backend, pkt, enc, wire, tamper, via, lenIn, vec, call, features, sent, got,
                   meter, lim>>

NextIo == WritePacketlen \/ ReadWritten

SpecIo == InitIo /\ [][NextIo]_vars

NextBits == Next \/ SetFlags \/ SetAckFlags

SpecBits == Init /\ [][NextBits]_vars

NextTamper == Next \/ PadRegion \/ ShrinkRegion \/ SetByte

SpecTamper == Init /\ [][NextTamper]_vars

(***************************************************************************)
(* Vocabulary of the properties                                            *)
(***************************************************************************)
\* the bytes that follow the remaining-length field of an encoded packet
BodyOf(w) == DecoderPacketlen(Tail(w)).rest

\* the length meter run over the fields of the body of a packet
MeterOf(p) ==
    IF p.type = ConnectTYPE THEN ConnectLength(p)
    ELSE IF p.type = ConnackTYPE THEN LengthU8(LengthBitmap(LengthNew))
    ELSE IF p.type = PublishTYPE THEN PublishLength(p)
    ELSE IF p.type = SubscribeTYPE THEN SubscribeLength(p)
    ELSE IF p.type = UnsubscribeTYPE THEN UnsubscribeLength(p)
    ELSE IF p.type \in AckTypes THEN LengthU16(LengthNew)
    ELSE LengthNew

\* a variant decoder has run on the stream of a packet of type t
DecodedAs(t) == phase = "decoded" /\ via = "variant" /\ pkt.type = t

\* the position of the protocol level byte in an encoded CONNECT
LevelPos(w) == Len(w) - Len(BodyOf(w)) + 7

\* the offsets in the CONNECT body at which the will topic and the will
\* message of p end
WillTopicEnd(p) == 6 + 1 + 1 + 2 + (2 + Len(p.client_id)) + (2 + Len(p.will_topic[1]))
WillMessageEnd(p) == WillTopicEnd(p) + (2 + Len(p.will_message[1]))

(***************************************************************************)
(* Properties                                                              *)
(***************************************************************************)
\* C1: round trip. Decoding the collected bytes of a valid packet value with
\* the decoder of its own packet type returns Ok of that same value.
C1_RoundTrip ==
    (phase = "decoded" /\ via = "variant" /\ tamper = "none" /\ Valid(pkt))
        => (res.ok /\ res.val = pkt)

\* a CONNECT with a will and credentials has been encoded and decoded back
C1_Witness ==
    /\ DecodedAs(ConnectTYPE) /\ tamper = "none" /\ Valid(pkt)
    /\ IsSome(pkt.will_topic) /\ IsSome(pkt.username) /\ pkt.will_qos = 2
    /\ Len(pkt.client_id) = MaxLen
    /\ res.ok /\ res.val = pkt

\* C2: type-erased decode. On a stream whose first byte has a type nibble in
\* 1..14, Packet::try_from_iter returns what the decoder of that packet type
\* returns on the whole stream, first byte included.
C2_PacketDecodesAsVariant ==
    (phase = "decoded" /\ via = "packet" /\ wire # <<>> /\ Head(wire) \div 16 \in 1..14)
        => LET variant == TryFromIter(Head(wire) \div 16, wire,
                                      BytesCapOf(backend), SeqCapOf(backend))
           IN  /\ res.ok = variant.ok
               /\ res.err = variant.err
               /\ res.val = variant.val

\* C3: truncation. Decoding a prefix strictly shorter than the encoding of
\* a valid value returns the Truncated error, never Ok and never another
\* error kind.
C3_PrefixIsTruncated ==
    (phase = "decoded" /\ via = "variant" /\ tamper = "prefix" /\ Valid(pkt))
        => (~res.ok /\ res.err = Truncated)

\* C4: length agreement. The remaining-length field of an encoded packet
\* decodes to the number of bytes that follow it, and the encoding is as
\* long as the header byte, the remaining-length field and the body length
\* the length meter computes over the fields.
C4_LengthAgreement ==
    (phase = "encoded" /\ tamper = "none" /\ ~enc.panic)
        => LET len == DecoderPacketlen(Tail(enc.sink))
           IN  /\ len.ok
               /\ len.val = Len(len.rest)
               /\ ~MeterOf(pkt).panic
               /\ Len(enc.sink) = 1 + PacketlenSize(MeterOf(pkt).len) + MeterOf(pkt).len

\* a CONNECT with every optional field has been encoded
C4_Witness ==
    /\ phase = "encoded" /\ tamper = "none" /\ ~enc.panic
    /\ pkt.type = ConnectTYPE
    /\ IsSome(pkt.will_message) /\ IsSome(pkt.password)
    /\ Len(pkt.client_id) = MaxLen /\ Len(pkt.will_message[1]) = MaxLen
    /\ Len(pkt.password[1]) = MaxLen

\* C5: remaining-length round trip. Encoder::packetlen panics exactly for
\* the lengths of 2^28 and more; for the others Decoder::packetlen on the
\* bytes produced returns Ok of the length and consumes exactly those bytes.
C5_PacketlenRoundTrip ==
    /\ (phase = "lenencoded" \/ via = "packetlen")
            => (enc.panic <=> lenIn >= PacketlenLimit)
    /\ (phase = "decoded" /\ via = "packetlen")
            => (res.ok /\ res.val = lenIn /\ wire = enc.sink \o res.rest)

\* the largest length has been encoded in four bytes and read back from a
\* source that goes on after them
C5_Witness ==
    /\ phase = "decoded" /\ via = "packetlen"
    /\ lenIn = PacketlenLimit - 1
    /\ Len(enc.sink) = 4
    /\ res.ok /\ res.val = lenIn /\ res.rest = <<127, 1>>

\* C6: trailing bytes. A packet without a greedy tail (any type but PUBLISH,
\* SUBSCRIBE and UNSUBSCRIBE) whose remaining length covers bytes after its
\* last field is rejected.
C6_TrailingBytesRejected ==
    (phase = "decoded" /\ via = "variant" /\ tamper = "pad"
        /\ pkt.type \notin {PublishTYPE, SubscribeTYPE, UnsubscribeTYPE})
        => ~res.ok

\* C7: PUBLISH packet id. In every Publish value built or decoded the
\* packet id is present exactly when qos > 0, and the encoded body carries
\* the two packet id bytes exactly when the QoS bits of the header are not
\* both zero.
C7_PacketIdIffQos ==
    /\ pkt.type = PublishTYPE => (IsSome(pkt.packet_id) <=> pkt.qos > 0)
    /\ (phase = "decoded" /\ via # "packetlen" /\ res.ok /\ res.val.type = PublishTYPE)
            => (IsSome(res.val.packet_id) <=> res.val.qos > 0)
    /\ (phase = "encoded" /\ pkt.type = PublishTYPE /\ ~enc.panic)
            => ((Len(BodyOf(enc.sink)) = 2 + Len(pkt.topic) + 2 + Len(pkt.payload))
                    <=> ((Head(enc.sink) \div 2) % 4 # 0))

\* C8: CONNECT version error. A CONNECT that is well formed but for a
\* protocol level byte other than 4 is rejected as UnsupportedVersion, and
\* UnsupportedVersion is returned for nothing else.
C8_WrongLevelIsUnsupportedVersion ==
    LET wrongLevel ==
            /\ DecodedAs(ConnectTYPE)
            /\ tamper = "setbyte"
            /\ wire[LevelPos(enc.sink)] # PROTOCOL_LEVEL_MQTT_3_1_1
    IN  /\ wrongLevel => (~res.ok /\ res.err = UnsupportedVersion)
        /\ (phase = "decoded" /\ ~res.ok /\ res.err = UnsupportedVersion) => wrongLevel

\* C9: CONNECT will on decode. In every CONNECT decoded, will topic and
\* will message are both Some when bit 2 of the connect flags byte is set
\* and both None when it is clear, whatever the will QoS and will retain
\* bits; and a CONNECT with the will flag set whose remaining-length region
\* ends after the will topic and before the end of the will message is
\* rejected as Truncated.
C9_WillDiscipline ==
    /\ (DecodedAs(ConnectTYPE) /\ res.ok)
            => LET will == Bit(BodyOf(wire)[8], 2)
               IN  /\ will => (IsSome(res.val.will_topic) /\ IsSome(res.val.will_message))
                   /\ ~will => (res.val.will_topic = None /\ res.val.will_message = None)
    /\ (DecodedAs(ConnectTYPE) /\ tamper = "shrink" /\ IsSome(pkt.will_topic)
            /\ DeclaredLen(wire) >= WillTopicEnd(pkt)
            /\ DeclaredLen(wire) < WillMessageEnd(pkt))
            => (~res.ok /\ res.err = Truncated)

\* a CONNECT sent with a will, whose connect flags the peer replaced by
\* 0x18 (will flag clear, both will QoS bits set), has been decoded
C9_Witness ==
    /\ DecodedAs(ConnectTYPE) /\ tamper = "setbyte"
    /\ IsSome(pkt.will_topic)
    /\ BodyOf(wire)[8] = 24
    /\ res.ok /\ res.val.will_topic = None /\ res.val.will_message = None
    /\ res.val.will_qos = 3

\* C10: CONNECT flags on encode. The connect flags byte emitted is, from
\* the most significant bit, username present, password present, will
\* retain, bit 1 of will_qos, bit 0 of will_qos, will flag, clean session, 0,
\* the will flag set whenever a will topic or a will message is present.
C10_ConnectFlagsByte ==
    (phase = "encoded" /\ pkt.type = ConnectTYPE /\ ~enc.panic)
        => BodyOf(enc.sink)[8] =
                  128 * B2N(IsSome(pkt.username)) + 64 * B2N(IsSome(pkt.password))
                + 32 * B2N(pkt.will_retain)
                + 16 * B2N(Bit(pkt.will_qos, 1)) + 8 * B2N(Bit(pkt.will_qos, 0))
                + 4 * B2N(IsSome(pkt.will_topic) \/ IsSome(pkt.will_message))
                + 2 * B2N(pkt.clean_session)

\* the packet types with a body of fixed length, and that length
FixedTypes == AckTypes \cup {ConnackTYPE} \cup EmptyTypes
FixedBodyLen(t) == IF t \in EmptyTypes THEN EmptyBODY_LEN ELSE AckBODY_LEN

\* C11: fixed-body packets. Decoding an ACK-like packet or a CONNACK whose
\* remaining length is a value other than 2, or a DISCONNECT, PINGREQ or
\* PINGRESP whose remaining length is a value other than 0, returns
\* SpecViolation with every byte after the remaining-length field still in
\* the source; and the encoding of these packets carries the remaining
\* length 2, respectively 0.
C11_FixedBodyLength ==
    /\ (DecodedAs(pkt.type) /\ pkt.type \in FixedTypes
            /\ wire # <<>> /\ Head(wire) \div 16 = pkt.type
            /\ DecoderPacketlen(Tail(wire)).ok
            /\ DecoderPacketlen(Tail(wire)).val # FixedBodyLen(pkt.type))
            => /\ ~res.ok
               /\ res.err = SpecViolation
               /\ res.rest = DecoderPacketlen(Tail(wire)).rest
    /\ (phase = "encoded" /\ pkt.type \in FixedTypes /\ ~enc.panic)
            => /\ enc.sink[2] = FixedBodyLen(pkt.type)
               /\ Len(enc.sink) = 2 + FixedBodyLen(pkt.type)

\* an ACK-like packet sent with the remaining length 3 and a byte after the
\* packet id has been decoded: all three bytes are left in the source
C11_Witness ==
    /\ DecodedAs(pkt.type) /\ pkt.type \in AckTypes
    /\ tamper = "pad"
    /\ DeclaredLen(wire) = 3
    /\ ~res.ok /\ res.err = SpecViolation /\ Len(res.rest) = 3

\* C12: SUBSCRIBE and UNSUBSCRIBE header flags. The encoding carries the
\* flags nibble 0010, and decoding a stream whose header has the variant's
\* type and any other flags nibble returns SpecViolation.
C12_SubscribeHeaderFlags ==
    /\ (phase = "encoded" /\ ~enc.panic
            /\ pkt.type \in {SubscribeTYPE, UnsubscribeTYPE})
            => enc.sink[1] = pkt.type * 16 + 2
    /\ (DecodedAs(pkt.type) /\ pkt.type \in {SubscribeTYPE, UnsubscribeTYPE}
            /\ wire # <<>> /\ Head(wire) \div 16 = pkt.type
            /\ Head(wire) % 16 # 2)
            => ~res.ok /\ res.err = SpecViolation

\* an UNSUBSCRIBE sent with the flags nibble 1111 has been rejected
C12_Witness ==
    /\ DecodedAs(UnsubscribeTYPE)
    /\ tamper = "flags"
    /\ Head(wire) = UnsubscribeTYPE * 16 + 15
    /\ ~res.ok /\ res.err = SpecViolation

\* C13: CONNACK acknowledge flags. The encoding has the bits 1..7 of the
\* acknowledge flags clear, and a stream that differs from an encoding only
\* in those bits decodes to the value the encoding decodes to, with
\* session_present equal to bit 0.
C13_AckFlagsReservedBits ==
    /\ (phase = "encoded" /\ ~enc.panic /\ pkt.type = ConnackTYPE)
            => enc.sink[3] \div 2 = 0
    /\ (DecodedAs(ConnackTYPE) /\ tamper = "ackflags")
            => /\ Len(wire) = Len(enc.sink)
               /\ \A i \in 1..Len(wire) : i # 3 => wire[i] = enc.sink[i]
               /\ wire[3] % 2 = enc.sink[3] % 2
               /\ wire[3] # enc.sink[3]
               /\ res.ok
               /\ res = ConnackTryFromIter(enc.sink)
               /\ res.val.session_present = (wire[3] % 2 = 1)

\* a CONNACK sent with the acknowledge flags 0xFE has been decoded: no
\* session is present
C13_Witness ==
    /\ DecodedAs(ConnackTYPE)
    /\ tamper = "ackflags"
    /\ wire[3] = 254
    /\ res.ok /\ ~res.val.session_present

\* C14: reserved packet types. Packet::try_from_iter on a stream whose
\* first byte has the type nibble 0 or 15 returns SpecViolation and no
\* packet.
C14_ReservedTypesRejected ==
    (phase = "decoded" /\ via = "packet" /\ wire # <<>>
        /\ Head(wire) \div 16 \in {0, 15})
        => ~res.ok /\ res.err = SpecViolation

\* a stream starting with 0xF0 has been handed to Packet::try_from_iter
C14_Witness ==
    /\ phase = "decoded" /\ via = "packet"
    /\ tamper = "setbyte"
    /\ Head(wire) = 240
    /\ ~res.ok /\ res.err = SpecViolation

\* C15: atomic extension. After extend on any backend, either the call
\* returned Ok and the vector holds its former contents followed by all
\* the elements in order, or it returned Memory and the vector holds its
\* former contents.
C15_ExtendAtomic ==
    call.op = "extend"
        => IF call.out.ok
           THEN vec = call.before \o call.elements
           ELSE call.out.err = Memory /\ vec = call.before

\* the vector could not take another element when the last method was
\* called: a fixed-capacity vector was at its capacity, or the allocator
\* refused the reservation of a Vec<T>
WasFull ==
    IF backend = "std" THEN ~call.reserved ELSE Len(call.before) >= VecCap

\* C19: tolerant insert. On every backend insert(i, e) with i > len returns
\* what push(e) returns and leaves the vector as push(e) leaves it: Ok and
\* the element appended at the end unless the vector is full, Memory and
\* the contents untouched if it is; and push(e) does what insert(len, e)
\* does.
C19_TolerantInsert ==
    /\ (call.op = "insert" /\ call.index > Len(call.before))
            => /\ call.out = Push(backend, call.before, call.element, VecCap, call.reserved)
               /\ call.out.ok <=> ~WasFull
               /\ call.out.ok => vec = Append(call.before, call.element)
               /\ ~call.out.ok => call.out.err = Memory /\ vec = call.before
    /\ call.op = "push"
            => /\ call.out = Insert(backend, call.before, Len(call.before),
                                    call.element, VecCap, call.reserved)
               /\ call.out.ok <=> ~WasFull
               /\ call.out.ok => vec = Append(call.before, call.element)
               /\ ~call.out.ok => call.out.err = Memory /\ vec = call.before

\* insert with an index two past the end of a non-empty heapless vector has
\* appended the element
C19_Witness ==
    /\ backend = "heapless"
    /\ call.op = "insert"
    /\ call.before # <<>>
    /\ call.index = Len(call.before) + 2
    /\ call.out.ok
    /\ vec = Append(call.before, call.element)

\* the optional byte field o is None or within the capacity
FitsOpt(o, cap) == o = None \/ Len(o[1]) <= cap

\* all byte fields of the packet p are within the capacity cap and its
\* topic list is within the capacity seqcap
Fits(p, cap, seqcap) ==
    /\ p.type = ConnectTYPE =>
            /\ Len(p.client_id) <= cap
            /\ FitsOpt(p.will_topic, cap) /\ FitsOpt(p.will_message, cap)
            /\ FitsOpt(p.username, cap) /\ FitsOpt(p.password, cap)
    /\ p.type = PublishTYPE => Len(p.topic) <= cap /\ Len(p.payload) <= cap
    /\ p.type = SubscribeTYPE =>
            /\ Len(p.topics_qos) <= seqcap
            /\ \A i \in 1..Len(p.topics_qos) : Len(p.topics_qos[i][1]) <= cap
    /\ p.type = UnsubscribeTYPE =>
            /\ Len(p.topics) <= seqcap
            /\ \A i \in 1..Len(p.topics) : Len(p.topics[i]) <= cap

\* r is the outcome of decoding a stream into unbounded containers: the
\* stream is a well-formed packet that the containers of the given
\* capacities cannot hold
ExhaustsCapacity(r, cap, seqcap) == r.ok /\ ~Fits(r.val, cap, seqcap)

C17_ReencodeIdentity ==
    (phase = "decoded" /\ via = "variant" /\ tamper = "none")
        => /\ res.ok
           /\ ~IntoIter(res.val).panic
           /\ IntoIter(res.val).sink = wire

\* C18: will QoS range. Every Connect value built by Connect::new and
\* with_will, and every Connect value returned by a decoder, has will_qos
\* in {0, 1, 2}.
C18_WillQosRange ==
    /\ pkt.type = ConnectTYPE => pkt.will_qos \in ValidQos
    /\ (phase = "decoded" /\ via # "packetlen" /\ res.ok
            /\ res.val.type = ConnectTYPE)
            => res.val.will_qos \in ValidQos

\* the build was rejected at compile time, respectively accepted
Rejected == phase = "rejected"
Accepted == phase \notin {"unbuilt", "rejected"}

\* C20: backend selection. A build is accepted if and only if exactly one
\* of the features std, arrayvec and heapless is selected; a build with
\* none, two or three of them is rejected at compile time.
C20_ExactlyOneBackend ==
    /\ Accepted => Cardinality(features) = 1
    /\ Rejected => Cardinality(features) # 1
    /\ (phase # "unbuilt" /\ Cardinality(features) = 1) => Accepted
    /\ (phase # "unbuilt" /\ Cardinality(features) # 1) => Rejected

\* the concatenated encodings of the packets i.. of the sequence ps
RECURSIVE EncodedFrom(_, _)
EncodedFrom(ps, i) ==
    IF i > Len(ps) THEN <<>> ELSE IntoIter(ps[i]).sink \o EncodedFrom(ps, i + 1)

\* C21: stream framing. On a stream that is the concatenation of the
\* encodings of valid packets, the successive decodes return the packets in
\* order, each one leaves on the stream exactly the encodings of the packets
\* after it, and the last one leaves the stream exhausted.
C21_StreamFraming ==
    /\ \A i \in 1..Len(got) :
        /\ got[i].ok
        /\ got[i].val = sent[i]
        /\ got[i].rest = EncodedFrom(sent, i + 1)
    /\ (phase = "receiving" /\ Len(got) = Len(sent)) => wire = <<>>
    /\ (phase = "receiving" /\ Len(got) < Len(sent))
            => wire = EncodedFrom(sent, Len(got) + 1)

\* a PUBLISH with a payload, sent between two other packets, has been
\* decoded, and so have the packets around it
C21_Witness ==
    /\ phase = "receiving"
    /\ Len(sent) = 3 /\ Len(got) = 3
    /\ sent[2].type = PublishTYPE /\ sent[2].payload # <<>>
    /\ \A i \in 1..3 : got[i].ok /\ got[i].val = sent[i]
    /\ wire = <<>>

\* C22: the length meter mirrors the encoder. After any sequence of
\* primitive operations applied with the same arguments to a fresh Length
\* and to a fresh Encoder, the total of the meter is the number of bytes the
\* iterator of the encoder yields.
C22_MeterMirrorsEncoder ==
    (phase = "ops" /\ ~enc.panic /\ ~meter.panic) => meter.len = Len(enc.sink)

\* a topic list with QoS bytes was written after other fields
C22_Witness ==
    /\ phase = "ops" /\ call.op = "topics_qos"
    /\ ~enc.panic /\ ~meter.panic
    /\ Len(enc.sink) > MaxSink
    /\ meter.len = Len(enc.sink)

\* C23: the length meter panics like the encoder. After any primitive
\* operation applied with the same argument to a Length and to an Encoder,
\* the Length has panicked exactly if the Encoder has.
C23_MeterPanicsLikeEncoder ==
    phase = "ops" => (meter.panic <=> enc.panic)

\* a primitive of the decoder has been called on the source wire
HasRead(op) == phase = "read" /\ call.op = op

\* the bytes the last read consumed
Consumed == Take(wire, Len(wire) - Len(res.rest))

\* the first k bytes of the source have the continuation bit set
Continued(k) == Len(wire) >= k /\ \A i \in 1..k : wire[i] >= 128

\* the number the first k bytes spell, seven bits a byte, most significant
\* heptet first
RECURSIVE HeptetValue(_, _)
HeptetValue(bytes, k) ==
    IF k = 0 THEN 0 ELSE (HeptetValue(bytes, k - 1) * 128) + (bytes[k] % 128)

\* C24: remaining-length decode rules. Decoder::packetlen consumes at most
\* four bytes. It returns SpecViolation if the first byte is 0x80 and if the
\* first four bytes all have the continuation bit; Truncated if the source
\* is empty or ends after a byte with the continuation bit; and otherwise
\* the value of the heptets up to the first byte without the bit. So 00
\* gives 0, 80 00 is rejected, FF FF FF 7F gives 2^28 - 1 and FF FF FF FF is
\* rejected.
C24_PacketlenDecodeRules ==
    HasRead("packetlen") =>
        /\ Len(Consumed) <= 4
        /\ wire = Consumed \o res.rest
        /\ IF wire # <<>> /\ Head(wire) = 128
           THEN ~res.ok /\ res.err = SpecViolation
           ELSE IF Continued(4)
           THEN ~res.ok /\ res.err = SpecViolation
           ELSE IF Continued(Len(wire))
           THEN ~res.ok /\ res.err = Truncated
           ELSE \E k \in 1..4 :
                    /\ Continued(k - 1) /\ wire[k] < 128
                    /\ res = Ok(HeptetValue(wire, k), Drop(wire, k))
        /\ wire = <<0>> => res = Ok(0, <<>>)
        /\ wire = <<128, 0>> => ~res.ok
        /\ wire = <<255, 255, 255, 127>> => res = Ok(268435455, <<>>)
        /\ wire = <<255, 255, 255, 255>> => ~res.ok

\* FF FF FF 7F, followed by another byte, has been read as 2^28 - 1
C24_Witness ==
    /\ HasRead("packetlen")
    /\ Take(wire, 4) = <<255, 255, 255, 127>> /\ Len(wire) = 5
    /\ res.ok /\ res.val = PacketlenLimit - 1 /\ Len(res.rest) = 1

\* C25: canonical remaining-length decoding. Whenever Decoder::packetlen
\* returns Ok(n), Encoder::packetlen(n) yields exactly the bytes it
\* consumed.
C25_PacketlenCanonical ==
    (HasRead("packetlen") /\ res.ok)
        => /\ ~EncoderPacketlen(EncoderDefault, res.val).panic
           /\ EncoderPacketlen(EncoderDefault, res.val).sink = Consumed

\* FF 7F has been read as 16383, the greatest length that takes two bytes
C25_Witness ==
    /\ HasRead("packetlen")
    /\ Take(wire, 2) = <<255, 127>>
    /\ res.ok /\ res.val = 16383
    /\ EncoderPacketlen(EncoderDefault, res.val).sink = <<255, 127>>

\* a read or a peek named op was the last call on the limited decoder
LimitedCall(op) == phase = "limited" /\ call.op = op

\* the bytes limit(n) exposes: the next n bytes of the source
Exposed == Take(lim.source, lim.n)

\* what the read op returns on a decoder that is not limited
Unlimited(op, source, cap) ==
    IF op = "u8" THEN DecoderU8(source)
    ELSE IF op = "u16" THEN DecoderU16(source)
    ELSE DecoderBytes(source, cap)

\* the number of bytes the read op takes from a decoder that is not limited
Needs(op, source, cap) == Len(source) - Len(Unlimited(op, source, cap).rest)

\* C26: limited view. After limit(n) the reads draw only the next n bytes
\* of the source, in order, and the underlying source is advanced by at most
\* n bytes. A read that would take more bytes than the view has left fails
\* as Truncated; a read that would not returns what it returns without the
\* limit. is_empty reports true and peek_u8 None exactly when the n bytes
\* are used up, and raw_remainder returns the bytes left of the n.
C26_LimitedView ==
    phase = "limited" =>
        /\ Len(lim.out) <= lim.n
        /\ lim.out = Take(lim.source, Len(lim.out))
        /\ Len(lim.source) - Len(wire) <= lim.n
        /\ wire = Drop(lim.source, Len(lim.source) - Len(wire))
        /\ call.op \in {"u8", "u16", "bytes"} =>
                IF Needs(call.op, call.source, BytesCapOf(backend)) > Len(call.view)
                THEN ~res.ok /\ res.err = Truncated
                ELSE /\ res.ok = Unlimited(call.op, call.source, BytesCapOf(backend)).ok
                     /\ res.val = Unlimited(call.op, call.source, BytesCapOf(backend)).val
                     /\ res.err = Unlimited(call.op, call.source, BytesCapOf(backend)).err
        /\ call.op = "is_empty" => (res.val <=> lim.out = Exposed)
        /\ call.op = "peek_u8" =>
                res.val = IF lim.out = Exposed THEN None
                          ELSE Some(lim.source[Len(lim.out) + 1])
        /\ call.op = "raw_remainder" =>
                IF res.ok
                THEN /\ lim.out = Exposed
                     /\ res.val = call.view
                ELSE /\ res.err = Memory
                     /\ backend # "std" /\ Len(call.view) > BytesCapOf(backend)

\* a limited decoder over two of the bytes of a longer source has yielded
\* them as a u16; the next u8 has failed and the source is two bytes on
C26_Witness ==
    /\ LimitedCall("u8")
    /\ lim.n = 2 /\ Len(lim.source) = MaxView
    /\ lim.out = Exposed
    /\ call.view = <<>>
    /\ ~res.ok /\ res.err = Truncated
    /\ wire = Drop(lim.source, 2)

\* the length prefix a region starts with, and the length of the item it
\* announces: the prefix, the bytes and q QoS bytes (q is 0 or 1)
PrefixOf(region) == region[1] * 256 + region[2]
ItemLen(region, q) == 2 + PrefixOf(region) + q

\* the region ends before the end of the item it starts with
EndsInside(region, q) ==
    region # <<>> /\ (Len(region) < 2 \/ Len(region) < ItemLen(region, q))

\* the item a region starts with
ItemOf(region, q) ==
    IF q = 0
    THEN SubSeq(region, 3, 2 + PrefixOf(region))
    ELSE <<SubSeq(region, 3, 2 + PrefixOf(region)), region[3 + PrefixOf(region)]>>

\* the well-formed items a region starts with, in wire order
RECURSIVE ItemsOf(_, _)
ItemsOf(region, q) ==
    IF region = <<>> \/ EndsInside(region, q)
    THEN <<>>
    ELSE <<ItemOf(region, q)>> \o ItemsOf(Drop(region, ItemLen(region, q)), q)

\* what is left of a region after its well-formed items: nothing, or the
\* start of an item
RECURSIVE CutOf(_, _)
CutOf(region, q) ==
    IF region = <<>> \/ EndsInside(region, q)
    THEN region
    ELSE CutOf(Drop(region, ItemLen(region, q)), q)

\* a container of capacity cap can hold n elements
Within(n, cap) == cap = Unbounded \/ n <= cap

\* the containers can hold what the region carries: its items, the bytes
\* of each of them and the bytes of the item it ends in
Held(region, q, cap, seqcap) ==
    /\ Within(Len(ItemsOf(region, q)), seqcap)
    /\ \A i \in 1..Len(ItemsOf(region, q)) :
            Within(Len(IF q = 0 THEN ItemsOf(region, q)[i] ELSE ItemsOf(region, q)[i][1]), cap)
    /\ Len(CutOf(region, q)) > 2 => Within(Len(CutOf(region, q)) - 2, cap)

\* the rule of C27 for the read op whose items carry q QoS bytes
TopicsRule(op, q) ==
    (LimitedCall(op) /\ Held(call.view, q, BytesCapOf(backend), SeqCapOf(backend)))
        => /\ call.view = <<>> => (res.ok /\ res.val = <<>>)
           /\ CutOf(call.view, q) = <<>>
                => (res.ok /\ res.val = ItemsOf(call.view, q) /\ lim.out = Exposed)
           /\ CutOf(call.view, q) # <<>> => (~res.ok /\ res.err = Truncated)

\* C27: topic sequences. On a peekable, limited region whose items the
\* containers can hold, Decoder::topics and Decoder::topics_qos return an
\* empty sequence if the region is empty, the items in wire order if the
\* region is a concatenation of well-formed items, and Truncated if the
\* region ends inside an item: in its length prefix, in its bytes or before
\* its QoS byte.
C27_TopicSequences == TopicsRule("topics", 0) /\ TopicsRule("topics_qos", 1)

\* a region limited to five bytes of a longer source has been read as two
\* topics, the second one empty
C27_Witness ==
    /\ LimitedCall("topics") /\ backend = "std"
    /\ Len(lim.source) = MaxView /\ lim.n = 5
    /\ call.view = <<0, 1, 1, 0, 0>>
    /\ res.ok /\ res.val = <<(<<1>>), <<>>>>
    /\ Len(wire) = 1

\* the result r of a read, with its value wrapped in Some
Wrapped(r) == IF r.ok THEN Ok(Some(r.val), r.rest) ELSE r

\* C28: optional reads. optional_u16(false) and optional_bytes(false)
\* return Ok(None) on every source, the empty one included, with the whole
\* source still to be read; optional_u16(true) and optional_bytes(true)
\* return what u16() and bytes() return, the value in Some, and leave the
\* source where they leave it.
C28_OptionalReads ==
    /\ (HasRead("optional_u16") /\ ~call.args[1]) => res = Ok(None, wire)
    /\ (HasRead("optional_bytes") /\ ~call.args[1]) => res = Ok(None, wire)
    /\ (HasRead("optional_u16") /\ call.args[1]) => res = Wrapped(DecoderU16(wire))
    /\ (HasRead("optional_bytes") /\ call.args[1])
            => res = Wrapped(DecoderBytes(wire, BytesCapOf(backend)))

\* optional_u16(false) has returned None on a one-byte source, on which
\* u16() fails, and the byte is still to be read
C28_Witness ==
    /\ HasRead("optional_u16") /\ ~call.args[1]
    /\ Len(wire) = 1
    /\ ~DecoderU16(wire).ok
    /\ res.ok /\ res.val = None
    /\ DecoderU8(res.rest) = DecoderU8(wire)

\* C29: remaining length through Writer and Reader. write_packetlen panics
\* exactly for the lengths of 2^28 and more, and for every other length
\* read_packetlen on the bytes written returns Ok of the length.
C29_WriterReaderPacketlen ==
    /\ phase \in {"written", "reread"} => (enc.panic <=> lenIn >= PacketlenLimit)
    /\ phase = "reread" => (res.ok /\ res.val = lenIn)

\* the sequence v is the sequence u with element put in at some position
InsertedInto(v, u, element) ==
    \E i \in 0..Len(u) : v = Take(u, i) \o <<element>> \o Drop(u, i)

\* C30: container invariant. On a fixed-capacity backend the vector never
\* holds more than CAP elements; the elements push and extend accept are
\* put at the end, in the order given, and an insert keeps the order of the
\* elements held; a push or an insert that fails returns Memory and leaves
\* the contents as they were.
C30_ContainerInvariant ==
    (phase = "vec" /\ backend # "std") =>
        /\ Len(vec) <= VecCap
        /\ (call.op = "push" /\ call.out.ok) => vec = Append(call.before, call.element)
        /\ call.op = "extend" =>
                /\ \E k \in 0..Len(call.elements) : vec = call.before \o Take(call.elements, k)
                /\ call.out.ok => vec = call.before \o call.elements
        /\ (call.op = "insert" /\ call.out.ok)
                => InsertedInto(vec, call.before, call.element)
        /\ (call.op \in {"push", "insert"} /\ ~call.out.ok)
                => (call.out.err = Memory /\ vec = call.before)

\* an insert at the front of a full heapless vector has failed and the
\* vector is as it was
C30_Witness ==
    /\ phase = "vec" /\ backend = "heapless"
    /\ call.op = "insert" /\ call.index = 0
    /\ Len(call.before) = VecCap
    /\ call.before[1] # call.before[VecCap]
    /\ ~call.out.ok /\ call.out.err = Memory
    /\ vec = call.before
====
